---- MODULE Spec2Model ----
(***************************************************************************)
(* Travel planner API (travels, events, event types) over one relational   *)
(* store: the route handlers of src/routes/*.py, the sanitizer of          *)
(* src/middleware/validation.py and the error envelope of                  *)
(* src/middleware/error_handler.py.                                        *)
(*                                                                         *)
(* Text is a sequence of one-character tokens (an HTML entity is one       *)
(* token).  Dates are day numbers, timestamps are clock ticks; a row id is *)
(* the row's index in its table, as rows are never physically removed.     *)
(***************************************************************************)
EXTENDS Integers, Sequences, FiniteSets, TLC

VARIABLES travels, event_types, events, now, resp, scan, before, calls,
          connection

(* travels, event_types, events: the tables, row id = index.  now: the     *)
(* clock.  resp: the response to the last request.  scan: the pages a      *)
(* client has fetched of one list.  before: for each row, the row as it    *)
(* stood before its latest soft delete (as created, if never deleted); a   *)
(* history variable no handler reads.  calls: the requests being handled  *)
(* at the same moment, each with its position in its handler and what it   *)
(* has read so far; empty while requests are handled one after another.    *)
(* connection: whether the storage accessor holds its connection.          *)

vars == <<travels, event_types, events, now, resp, scan, before, calls, connection>>

(***************************************************************************)
(* Bounds of the model.                                                    *)
(***************************************************************************)
MaxTravels == 2
MaxEventTypes == 2
MaxEvents == 2
MaxClock == 5

(* Clock ticks per calendar day: date(ts) = ts \div TicksPerDay.           *)
TicksPerDay == 4

(***************************************************************************)
(* Values.                                                                 *)
(***************************************************************************)
NULL == <<"\\NULL">>
NULL_TS == -1
BAD_DATE == -1
NO_DATE == -2
NO_TYPE == -2
NO_ID == 0

Min(a, b) == IF a <= b THEN a ELSE b
Max(a, b) == IF a >= b THEN a ELSE b

(***************************************************************************)
(* Text helpers: src/middleware/validation.py sanitize_string, Python      *)
(* str.lower and SQLite LOWER (both restricted to ASCII letters here).     *)
(***************************************************************************)
UpperLetters == <<"A", "B", "C", "D", "E", "F", "G", "H", "I", "J", "K", "L", "M",
                  "N", "O", "P", "Q", "R", "S", "T", "U", "V", "W", "X", "Y", "Z">>
LowerLetters == <<"a", "b", "c", "d", "e", "f", "g", "h", "i", "j", "k", "l", "m",
                  "n", "o", "p", "q", "r", "s", "t", "u", "v", "w", "x", "y", "z">>

LowerChar(c) ==
    IF \E i \in 1..26 : UpperLetters[i] = c
    THEN LowerLetters[CHOOSE i \in 1..26 : UpperLetters[i] = c]
    ELSE c

Lower(s) == [i \in 1..Len(s) |-> LowerChar(s[i])]

(* Character codes, for the store's BINARY text comparison.                *)
Digits == <<"0", "1", "2", "3", "4", "5", "6", "7", "8", "9">>

CharCode(c) ==
    IF \E i \in 1..26 : UpperLetters[i] = c
    THEN 64 + (CHOOSE i \in 1..26 : UpperLetters[i] = c)
    ELSE IF \E i \in 1..26 : LowerLetters[i] = c
    THEN 96 + (CHOOSE i \in 1..26 : LowerLetters[i] = c)
    ELSE IF \E i \in 1..10 : Digits[i] = c
    THEN 47 + (CHOOSE i \in 1..10 : Digits[i] = c)
    ELSE CASE c = " " -> 32
           [] c = "#" -> 35
           [] c = "&" -> 38
           [] c = "*" -> 42
           [] c = "<" -> 60
           [] c = ">" -> 62
           [] OTHER -> 127

RECURSIVE TextLE(_, _)
TextLE(a, b) ==
    IF a = <<>> THEN TRUE
    ELSE IF b = <<>> THEN FALSE
    ELSE IF CharCode(Head(a)) # CharCode(Head(b)) THEN CharCode(Head(a)) < CharCode(Head(b))
    ELSE TextLE(Tail(a), Tail(b))

(* html.unescape: an entity token becomes the character it names.          *)
UnescapeChar(c) ==
    CASE c = "&lt;" -> "<"
      [] c = "&gt;" -> ">"
      [] c = "&amp;" -> "&"
      [] OTHER -> c

Unescape(s) == [i \in 1..Len(s) |-> UnescapeChar(s[i])]

(* re.sub(r'<[^>]*>', '', s): the leftmost "<" that has a later ">" is     *)
(* removed together with everything up to the first ">" after it.          *)
RECURSIVE StripTags(_)
StripTags(s) ==
    IF s = <<>> THEN <<>>
    ELSE IF Head(s) = "<" /\ (\E j \in 2..Len(s) : s[j] = ">")
         THEN LET j == CHOOSE k \in 2..Len(s) :
                           s[k] = ">" /\ \A m \in 2..(k - 1) : s[m] # ">"
              IN  StripTags(SubSeq(s, j + 1, Len(s)))
         ELSE <<Head(s)>> \o StripTags(Tail(s))

(* re.sub(r'[\x00-\x1f\x7f-\x9f]', '', s); "^A" stands for a control       *)
(* character, "\t" for a tab (a control character too).                    *)
ControlChars == {"^A", "\t"}

RECURSIVE RemoveControl(_)
RemoveControl(s) ==
    IF s = <<>> THEN <<>>
    ELSE IF Head(s) \in ControlChars THEN RemoveControl(Tail(s))
         ELSE <<Head(s)>> \o RemoveControl(Tail(s))

Whitespace == {" ", "\t"}

RECURSIVE LStrip(_)
LStrip(s) ==
    IF s = <<>> THEN <<>>
    ELSE IF Head(s) \in Whitespace THEN LStrip(Tail(s)) ELSE s

RECURSIVE RStrip(_)
RStrip(s) ==
    IF s = <<>> THEN <<>>
    ELSE IF s[Len(s)] \in Whitespace THEN RStrip(SubSeq(s, 1, Len(s) - 1)) ELSE s

Strip(s) == RStrip(LStrip(s))

sanitize_string(value) == Strip(RemoveControl(StripTags(Unescape(value))))

sanitize_input(data) == sanitize_string(data)

(* "sanitize_input(x) if x else None" of the create handlers.              *)
SanitizeOptional(x) == IF x = NULL \/ x = <<>> THEN NULL ELSE sanitize_input(x)

(***************************************************************************)
(* Clock: datetime.now() and date.today().                                 *)
(***************************************************************************)
DateOf(ts) == ts \div TicksPerDay
Today == DateOf(now)

(***************************************************************************)
(* Storage queries shared by the handlers.                                 *)
(***************************************************************************)
TravelIds == 1..Len(travels)
EventTypeIds == 1..Len(event_types)
EventIds == 1..Len(events)

(* SELECT COUNT( * ) FROM events WHERE travel_id = ? AND is_deleted = 0    *)
(* An events count that also counts the soft-deleted events.               *)
EventsCount_AnyEvent(travel_id) ==
    Cardinality({e \in EventIds : events[e].travel_id = travel_id})

EventsCount(travel_id) ==
    Cardinality({e \in EventIds : events[e].travel_id = travel_id /\ events[e].is_deleted = 0})

(* SELECT COUNT( * ) FROM events WHERE event_type_id = ? AND is_deleted = 0 *)
(* A usage count that also counts the soft-deleted events.                 *)
UsageCount_AnyEvent(event_type_id) ==
    Cardinality({e \in EventIds : events[e].event_type_id = event_type_id})

UsageCount(event_type_id) ==
    Cardinality({e \in EventIds :
        events[e].event_type_id = event_type_id /\ events[e].is_deleted = 0})

(***************************************************************************)
(* Responses.  A response carries the operation, the path id, the HTTP     *)
(* status, and for the successful reads the auxiliary count or the page.   *)
(* detail_count is the number formatted into the error message; context is *)
(* the "context" member of the error envelope (absent: NULL).  req and     *)
(* sent are the query parameters and the body of the request answered.     *)
(***************************************************************************)
(* The query parameters of a list request (None: NULL, NO_DATE, NO_ID).    *)
NoFilter ==
    [title |-> NULL, destination |-> NULL, location |-> NULL, category |-> NULL,
     start_date_from |-> NO_DATE, start_date_to |-> NO_DATE,
     end_date_from |-> NO_DATE, end_date_to |-> NO_DATE,
     deleted_date_from |-> NO_DATE, deleted_date_to |-> NO_DATE,
     event_type_id |-> NO_ID]

(* A response body without an "error" member.                              *)
NoError == [type |-> "", code |-> "", status_code |-> 0]

NoResponse ==
    [op |-> "none", id |-> NO_ID, status |-> 0, count |-> -1, detail_count |-> -1,
     context |-> NULL, data |-> <<>>, total |-> -1, page |-> -1, pages |-> -1,
     limit |-> -1, offset |-> -1, deletedAt |-> NULL_TS, created |-> NO_ID,
     req |-> NoFilter, sent |-> <<>>, error |-> NoError,
     named |-> {}]

Reply(op, id, status) ==
    [NoResponse EXCEPT !.op = op, !.id = id, !.status = status]

(* The exception classes the application meets, each with its method       *)
(* resolution order.  fastapi.HTTPException, which the route handlers      *)
(* raise and CustomHTTPException extends, is a subclass of the             *)
(* HTTPException of the routing layer; the router raises the latter for a  *)
(* path no route matches (404) and for a method a route does not allow     *)
(* (405).                                                                  *)
Mro(cls) ==
    CASE cls = "CustomHTTPException" ->
             <<"CustomHTTPException", "HTTPException", "StarletteHTTPException", "Exception">>
      [] cls = "HTTPException" -> <<"HTTPException", "StarletteHTTPException", "Exception">>
      [] cls = "StarletteHTTPException" -> <<"StarletteHTTPException", "Exception">>
      [] cls = "ValueError" -> <<"ValueError", "Exception">>
      [] cls = "TypeError" -> <<"TypeError", "Exception">>
      [] OTHER -> <<"Exception">>

(* add_error_handlers: the classes a handler is registered for.  The       *)
(* handler for Exception serves what no other handler took.                *)
exception_handlers ==
    {"CustomHTTPException", "HTTPException", "ValueError", "TypeError", "Exception"}

(* The handler that serves an exception: the first class of its method     *)
(* resolution order with a registered handler; the framework's own         *)
(* handler stands in for the routing layer's HTTPException when the        *)
(* application registers none for it.                                      *)
HandlerFor(cls) ==
    LET known == (exception_handlers \ {"Exception"}) \cup {"StarletteHTTPException"}
        hits == {i \in 1..Len(Mro(cls)) : Mro(cls)[i] \in known}
    IN  IF hits = {} THEN "Exception"
        ELSE Mro(cls)[CHOOSE i \in hits : \A j \in hits : i <= j]

(* The "error" member of the body a handler renders; NoError when the body *)
(* has no such member (the framework's handler renders {"detail": ...}).   *)
ErrorBody(handler, status) ==
    CASE handler \in {"CustomHTTPException", "HTTPException"} ->
             [type |-> "http_error", code |-> "HTTP_" \o ToString(status),
              status_code |-> status]
      [] handler = "ValueError" ->
             [type |-> "validation_error", code |-> "VALUE_ERROR", status_code |-> 400]
      [] handler = "TypeError" ->
             [type |-> "validation_error", code |-> "TYPE_ERROR", status_code |-> 400]
      [] handler = "Exception" ->
             [type |-> "internal_error", code |-> "INTERNAL_ERROR", status_code |-> 500]
      [] OTHER -> NoError

(* The response to an HTTP exception of class cls with the given status.   *)
Raised(cls, op, id, status) ==
    [Reply(op, id, status) EXCEPT !.error = ErrorBody(HandlerFor(cls), status)]

(* raise HTTPException(status_code=..., detail=...) in a route handler,    *)
(* rendered by http_exception_handler without a context member.            *)
HttpError(op, id, status) == Raised("HTTPException", op, id, status)


(* A failed request: the error response, and nothing else changes.         *)
Failed(op, id, status) ==
    /\ resp' = HttpError(op, id, status)
    /\ UNCHANGED <<travels, event_types, events, now, scan, before, calls, connection>>

(* A failed request whose body the client keeps with the response.         *)
Rejected(op, id, status, body) ==
    /\ resp' = [HttpError(op, id, status) EXCEPT !.sent = body]
    /\ UNCHANGED <<travels, event_types, events, now, scan, before, calls, connection>>

(* A failed update: the error response, kept with the column names the     *)
(* request provided and its body, and nothing else changes.                *)
FailedUpdate(op, id, status, body, columns) ==
    /\ resp' = [HttpError(op, id, status) EXCEPT !.sent = body, !.named = columns]
    /\ UNCHANGED <<travels, event_types, events, now, scan, before, calls, connection>>

(* A successful read other than a list.                                    *)
Answered(r) ==
    /\ resp' = r
    /\ UNCHANGED <<travels, event_types, events, now, scan, before, calls, connection>>

(* GET /nonexistent-endpoint: no route matches, the router raises 404.     *)
nonexistent_endpoint ==
    Answered(Raised("StarletteHTTPException", "nonexistent_endpoint", NO_ID, 404))

(* POST /health: the route allows GET only, the router raises 405.         *)
post_health ==
    Answered(Raised("StarletteHTTPException", "post_health", NO_ID, 405))

(***************************************************************************)
(* List machinery: WHERE, ORDER BY, LIMIT/OFFSET and pagination metadata.  *)
(***************************************************************************)
(* x LIKE '%pat%' (ASCII case-insensitive; NULL never matches).            *)
Contains(s, pat) ==
    \E i \in 1..(Len(s) - Len(pat) + 1) : SubSeq(s, i, i + Len(pat) - 1) = pat

Like(x, pat) == x # NULL /\ Contains(Lower(x), Lower(pat))

(* A Python truthy optional string query parameter.                        *)
Given(x) == x # NULL /\ x # <<>>

(* All sequences listing the set S once each.                              *)
Perms(S) ==
    {sq \in [1..Cardinality(S) -> S] : \A i, j \in 1..Cardinality(S) : sq[i] = sq[j] => i = j}

(* ORDER BY: every listing of S in which each row may precede the rows    *)
(* after it; the store leaves the order of rows with equal sort keys       *)
(* unspecified.                                                            *)
OrderBy(S, precedes) ==
    {sq \in Perms(S) : \A i, j \in 1..Len(sq) : i < j => <<sq[i], sq[j]>> \in precedes}

(* LIMIT ? OFFSET ?                                                        *)
LimitOffset(sq, limit, offset) == SubSeq(sq, offset + 1, Min(offset + limit, Len(sq)))

(* page = (offset // limit) + 1                                            *)
PageNumber(limit, offset) == (offset \div limit) + 1

(* A page count that rounds down.                                          *)
TotalPages_RoundedDown(total_count, limit) == total_count \div limit

(* total_pages = (total_count + limit - 1) // limit                        *)
TotalPages(total_count, limit) == (total_count + limit - 1) \div limit

ListResponse(op, id, f, limit, offset, total_count, rows) ==
    [Reply(op, id, 200) EXCEPT !.req = f, !.limit = limit, !.offset = offset,
                               !.total = total_count, !.data = rows,
                               !.page = PageNumber(limit, offset),
                               !.pages = TotalPages(total_count, limit)]

(***************************************************************************)
(* A client paging through one list: offsets 0, limit, 2*limit, ...  with  *)
(* no write in between.  got collects the pages' ids in order.             *)
(***************************************************************************)
NoScan == [active |-> FALSE, op |-> "none", id |-> NO_ID, req |-> NoFilter, limit |-> 0,
           next |-> 0, total |-> 0, pages |-> 0, fetched |-> 0, got |-> <<>>]

ScanAfter(r) ==
    IF r.status # 200 THEN NoScan
    ELSE IF r.offset = 0
         THEN [active |-> TRUE, op |-> r.op, id |-> r.id, req |-> r.req, limit |-> r.limit,
               next |-> r.limit, total |-> r.total, pages |-> r.pages, fetched |-> 1,
               got |-> r.data]
    ELSE IF /\ scan.active /\ scan.op = r.op /\ scan.id = r.id /\ scan.req = r.req
            /\ scan.limit = r.limit /\ scan.next = r.offset
         THEN [scan EXCEPT !.next = @ + r.limit, !.fetched = @ + 1, !.got = @ \o r.data]
    ELSE NoScan

Listed(r) ==
    /\ resp' = r
    /\ scan' = ScanAfter(r) /\ UNCHANGED <<calls, connection>>
    /\ UNCHANGED <<travels, event_types, events, now, before>>

(***************************************************************************)
(* Travels: src/routes/travels.py                                          *)
(***************************************************************************)
ValidDate(d) == d >= 0

(* A WHERE clause of list_travels without its is_deleted condition.        *)
TravelsWhere_AnyRow(f) ==
    {t \in TravelIds :
        /\ Given(f.title) => Like(travels[t].title, f.title)
        /\ Given(f.destination) => Like(travels[t].destination, f.destination)
        /\ f.start_date_from # NO_DATE => travels[t].start_date >= f.start_date_from
        /\ f.start_date_to # NO_DATE => travels[t].start_date <= f.start_date_to
        /\ f.end_date_from # NO_DATE => travels[t].end_date >= f.end_date_from
        /\ f.end_date_to # NO_DATE => travels[t].end_date <= f.end_date_to}

(* WHERE clause of list_travels.                                           *)
TravelsWhere(f) ==
    {t \in TravelIds :
        /\ travels[t].is_deleted = 0
        /\ Given(f.title) => Like(travels[t].title, f.title)
        /\ Given(f.destination) => Like(travels[t].destination, f.destination)
        /\ f.start_date_from # NO_DATE => travels[t].start_date >= f.start_date_from
        /\ f.start_date_to # NO_DATE => travels[t].start_date <= f.start_date_to
        /\ f.end_date_from # NO_DATE => travels[t].end_date >= f.end_date_from
        /\ f.end_date_to # NO_DATE => travels[t].end_date <= f.end_date_to}

(* ORDER BY created_at DESC                                                *)
TravelsNewestFirst(a, b) == travels[a].created_at >= travels[b].created_at

(* ORDER BY deleted_at DESC                                                *)
TravelsLastDeletedFirst(a, b) == travels[a].deleted_at >= travels[b].deleted_at

list_travels_responses(limit, offset, f) ==
    IF \/ f.start_date_from = BAD_DATE \/ f.start_date_to = BAD_DATE
       \/ f.end_date_from = BAD_DATE \/ f.end_date_to = BAD_DATE
    THEN {HttpError("list_travels", NO_ID, 400)}
    ELSE {ListResponse("list_travels", NO_ID, f, limit, offset,
                       Cardinality(TravelsWhere(f)), LimitOffset(sq, limit, offset)) :
              sq \in OrderBy(TravelsWhere(f),
                         {p \in TravelIds \X TravelIds : TravelsNewestFirst(p[1], p[2])})}

list_travels(limit, offset, f) ==
    \E r \in list_travels_responses(limit, offset, f) : Listed(r)

(* datetime.strptime(deleted_date_to, "%Y-MM-DD"): the format has the one  *)
(* directive %Y followed by the literal text "-MM-DD", so no date parses.  *)
ParsesAsYearMMDD(d) == FALSE

(* WHERE clause of list_deleted_travels.                                   *)
DeletedTravelsWhere(f) ==
    {t \in TravelIds :
        /\ travels[t].is_deleted = 1
        /\ Given(f.title) => Like(travels[t].title, f.title)
        /\ Given(f.destination) => Like(travels[t].destination, f.destination)
        /\ f.deleted_date_from # NO_DATE =>
               (travels[t].deleted_at # NULL_TS
                    /\ DateOf(travels[t].deleted_at) >= f.deleted_date_from)
        /\ f.deleted_date_to # NO_DATE =>
               (travels[t].deleted_at # NULL_TS
                    /\ DateOf(travels[t].deleted_at) <= f.deleted_date_to)}

list_deleted_travels_responses(limit, offset, f) ==
    IF \/ f.deleted_date_from = BAD_DATE
       \/ (f.deleted_date_to # NO_DATE /\ ~ParsesAsYearMMDD(f.deleted_date_to))
    THEN {[HttpError("list_deleted_travels", NO_ID, 400) EXCEPT !.req = f]}
    ELSE {ListResponse("list_deleted_travels", NO_ID, f, limit, offset,
                       Cardinality(DeletedTravelsWhere(f)), LimitOffset(sq, limit, offset)) :
              sq \in OrderBy(DeletedTravelsWhere(f),
                         {p \in TravelIds \X TravelIds : TravelsLastDeletedFirst(p[1], p[2])})}

list_deleted_travels(limit, offset, f) ==
    \E r \in list_deleted_travels_responses(limit, offset, f) : Listed(r)

(* A create that takes a start_date of today to be in the past as well.   *)
create_travel_TodayRefused(title, description, start_date, end_date, destination) ==
    /\ now < MaxClock
    /\ Len(travels) < MaxTravels
    /\ IF ~ValidDate(start_date) \/ ~ValidDate(end_date)
       THEN Rejected("create_travel", NO_ID, 400, <<title, start_date, end_date>>)
       ELSE IF start_date >= end_date
       THEN Rejected("create_travel", NO_ID, 400, <<title, start_date, end_date>>)
       ELSE IF start_date <= Today
       THEN Rejected("create_travel", NO_ID, 400, <<title, start_date, end_date>>)
       ELSE IF Strip(sanitize_input(title)) = <<>>
       THEN Rejected("create_travel", NO_ID, 400, <<title, start_date, end_date>>)
       ELSE /\ travels' = Append(travels,
                   [title |-> sanitize_input(title),
                    description |-> SanitizeOptional(description),
                    start_date |-> start_date,
                    end_date |-> end_date,
                    destination |-> SanitizeOptional(destination),
                    is_deleted |-> 0,
                    deleted_at |-> NULL_TS,
                    created_at |-> now,
                    updated_at |-> now])
            /\ now' = now + 1
            /\ resp' = [Reply("create_travel", NO_ID, 201) EXCEPT !.created = Len(travels) + 1,
                                                             !.sent = <<title, start_date, end_date>>]
            /\ scan' = NoScan /\ UNCHANGED <<calls, connection>>
            /\ before' = [before EXCEPT !.travels = Append(@, travels'[Len(travels) + 1])]
            /\ UNCHANGED <<event_types, events>>

create_travel(title, description, start_date, end_date, destination) ==
    /\ now < MaxClock
    /\ Len(travels) < MaxTravels
    /\ IF ~ValidDate(start_date) \/ ~ValidDate(end_date)
       THEN Rejected("create_travel", NO_ID, 400, <<title, start_date, end_date>>)
       ELSE IF start_date >= end_date
       THEN Rejected("create_travel", NO_ID, 400, <<title, start_date, end_date>>)
       ELSE IF start_date < Today
       THEN Rejected("create_travel", NO_ID, 400, <<title, start_date, end_date>>)
       ELSE IF Strip(sanitize_input(title)) = <<>>
       THEN Rejected("create_travel", NO_ID, 400, <<title, start_date, end_date>>)
       ELSE /\ travels' = Append(travels,
                   [title |-> sanitize_input(title),
                    description |-> SanitizeOptional(description),
                    start_date |-> start_date,
                    end_date |-> end_date,
                    destination |-> SanitizeOptional(destination),
                    is_deleted |-> 0,
                    deleted_at |-> NULL_TS,
                    created_at |-> now,
                    updated_at |-> now])
            /\ now' = now + 1
            /\ resp' = [Reply("create_travel", NO_ID, 201) EXCEPT !.created = Len(travels) + 1,
                                                             !.sent = <<title, start_date, end_date>>]
            /\ scan' = NoScan /\ UNCHANGED <<calls, connection>>
            /\ before' = [before EXCEPT !.travels = Append(@, travels'[Len(travels) + 1])]
            /\ UNCHANGED <<event_types, events>>

(* A get that looks the travel up before it validates the id.              *)
get_travel_LooksUpFirst(travel_id) ==
    IF travel_id \notin TravelIds THEN Failed("get_travel", travel_id, 404)
    ELSE IF travel_id <= 0 THEN Failed("get_travel", travel_id, 400)
    ELSE IF travels[travel_id].is_deleted = 1 THEN Failed("get_travel", travel_id, 410)
    ELSE Answered([Reply("get_travel", travel_id, 200) EXCEPT !.count = EventsCount(travel_id)])

get_travel(travel_id) ==
    IF travel_id <= 0 THEN Failed("get_travel", travel_id, 400)
    ELSE IF travel_id \notin TravelIds THEN Failed("get_travel", travel_id, 404)
    ELSE IF travels[travel_id].is_deleted = 1 THEN Failed("get_travel", travel_id, 410)
    ELSE Answered([Reply("get_travel", travel_id, 200) EXCEPT !.count = EventsCount(travel_id)])

(* update_fields of update_travel: the columns the request provided.       *)
TravelColumns(title, description, start_date, end_date, destination) ==
    {c \in {"title"} : title # NULL} \cup {c \in {"description"} : description # NULL}
        \cup {c \in {"start_date"} : start_date # NO_DATE}
        \cup {c \in {"end_date"} : end_date # NO_DATE}
        \cup {c \in {"destination"} : destination # NULL}

(* An UPDATE of a travel that stamps created_at as well.                   *)
UpdatedTravel_StampsCreatedAt(row, title, description, start_date, end_date, destination) ==
    [row EXCEPT
        !.title = IF title # NULL THEN sanitize_input(title) ELSE @,
        !.description = IF description # NULL THEN sanitize_input(description) ELSE @,
        !.start_date = IF start_date # NO_DATE THEN start_date ELSE @,
        !.end_date = IF end_date # NO_DATE THEN end_date ELSE @,
        !.destination = IF destination # NULL THEN sanitize_input(destination) ELSE @,
        !.created_at = now,
        !.updated_at = now]

(* The UPDATE statement of update_travel: the provided columns plus        *)
(* updated_at.                                                             *)
UpdatedTravel(row, title, description, start_date, end_date, destination) ==
    [row EXCEPT
        !.title = IF title # NULL THEN sanitize_input(title) ELSE @,
        !.description = IF description # NULL THEN sanitize_input(description) ELSE @,
        !.start_date = IF start_date # NO_DATE THEN start_date ELSE @,
        !.end_date = IF end_date # NO_DATE THEN end_date ELSE @,
        !.destination = IF destination # NULL THEN sanitize_input(destination) ELSE @,
        !.updated_at = now]

(* An update of a travel that does not compare a lone start_date with the  *)
(* stored end_date.                                                        *)
update_travel_UncheckedStart(travel_id, title, description, start_date, end_date, destination) ==
    /\ now < MaxClock
    /\ IF travel_id <= 0 THEN FailedUpdate("update_travel", travel_id, 400, <<>>,
                         TravelColumns(title, description, start_date, end_date, destination))
       ELSE IF travel_id \notin TravelIds THEN FailedUpdate("update_travel", travel_id, 404, <<>>,
                         TravelColumns(title, description, start_date, end_date, destination))
       ELSE IF travels[travel_id].is_deleted = 1 THEN FailedUpdate("update_travel", travel_id, 410, <<>>,
                         TravelColumns(title, description, start_date, end_date, destination))
       ELSE IF title # NULL /\ Strip(sanitize_input(title)) = <<>>
       THEN FailedUpdate("update_travel", travel_id, 400, <<>>,
                         TravelColumns(title, description, start_date, end_date, destination))
       ELSE IF start_date = BAD_DATE \/ end_date = BAD_DATE
       THEN FailedUpdate("update_travel", travel_id, 400, <<>>,
                         TravelColumns(title, description, start_date, end_date, destination))
       ELSE IF /\ title = NULL /\ description = NULL /\ start_date = NO_DATE
               /\ end_date = NO_DATE /\ destination = NULL
       THEN FailedUpdate("update_travel", travel_id, 400, <<>>,
                         TravelColumns(title, description, start_date, end_date, destination))
       ELSE IF start_date # NO_DATE /\ end_date # NO_DATE /\ start_date >= end_date
       THEN FailedUpdate("update_travel", travel_id, 400, <<>>,
                         TravelColumns(title, description, start_date, end_date, destination))
       ELSE IF start_date = NO_DATE /\ end_date # NO_DATE
               /\ travels[travel_id].start_date >= end_date
       THEN FailedUpdate("update_travel", travel_id, 400, <<>>,
                         TravelColumns(title, description, start_date, end_date, destination))
       ELSE /\ travels' = [travels EXCEPT ![travel_id] =
                   UpdatedTravel(@, title, description, start_date, end_date, destination)]
            /\ now' = now + 1
            /\ resp' = [Reply("update_travel", travel_id, 200) EXCEPT !.named =
                            TravelColumns(title, description, start_date, end_date, destination)]
            /\ scan' = NoScan /\ UNCHANGED <<calls, connection>>
            /\ UNCHANGED before
            /\ UNCHANGED <<event_types, events>>

update_travel(travel_id, title, description, start_date, end_date, destination) ==
    /\ now < MaxClock
    /\ IF travel_id <= 0 THEN FailedUpdate("update_travel", travel_id, 400, <<>>,
                         TravelColumns(title, description, start_date, end_date, destination))
       ELSE IF travel_id \notin TravelIds THEN FailedUpdate("update_travel", travel_id, 404, <<>>,
                         TravelColumns(title, description, start_date, end_date, destination))
       ELSE IF travels[travel_id].is_deleted = 1 THEN FailedUpdate("update_travel", travel_id, 410, <<>>,
                         TravelColumns(title, description, start_date, end_date, destination))
       ELSE IF title # NULL /\ Strip(sanitize_input(title)) = <<>>
       THEN FailedUpdate("update_travel", travel_id, 400, <<>>,
                         TravelColumns(title, description, start_date, end_date, destination))
       ELSE IF start_date = BAD_DATE \/ end_date = BAD_DATE
       THEN FailedUpdate("update_travel", travel_id, 400, <<>>,
                         TravelColumns(title, description, start_date, end_date, destination))
       ELSE IF /\ title = NULL /\ description = NULL /\ start_date = NO_DATE
               /\ end_date = NO_DATE /\ destination = NULL
       THEN FailedUpdate("update_travel", travel_id, 400, <<>>,
                         TravelColumns(title, description, start_date, end_date, destination))
       ELSE IF start_date # NO_DATE /\ end_date # NO_DATE /\ start_date >= end_date
       THEN FailedUpdate("update_travel", travel_id, 400, <<>>,
                         TravelColumns(title, description, start_date, end_date, destination))
       ELSE IF start_date # NO_DATE /\ end_date = NO_DATE
               /\ start_date >= travels[travel_id].end_date
       THEN FailedUpdate("update_travel", travel_id, 400, <<>>,
                         TravelColumns(title, description, start_date, end_date, destination))
       ELSE IF start_date = NO_DATE /\ end_date # NO_DATE
               /\ travels[travel_id].start_date >= end_date
       THEN FailedUpdate("update_travel", travel_id, 400, <<>>,
                         TravelColumns(title, description, start_date, end_date, destination))
       ELSE /\ travels' = [travels EXCEPT ![travel_id] =
                   UpdatedTravel(@, title, description, start_date, end_date, destination)]
            /\ now' = now + 1
            /\ resp' = [Reply("update_travel", travel_id, 200) EXCEPT !.named =
                            TravelColumns(title, description, start_date, end_date, destination)]
            /\ scan' = NoScan /\ UNCHANGED <<calls, connection>>
            /\ UNCHANGED before
            /\ UNCHANGED <<event_types, events>>

(* A soft delete that sets the flag and leaves deleted_at alone.            *)
SoftDeleted_FlagOnly(row) == [row EXCEPT !.is_deleted = 1, !.updated_at = now]

(* UPDATE ... SET is_deleted = 1, deleted_at = ?, updated_at = ?           *)
SoftDeleted(row) == [row EXCEPT !.is_deleted = 1, !.deleted_at = now, !.updated_at = now]

(* A restore that leaves deleted_at as the soft delete set it.              *)
Restored_KeepsDeletedAt(row) == [row EXCEPT !.is_deleted = 0, !.updated_at = now]

(* UPDATE ... SET is_deleted = 0, deleted_at = NULL, updated_at = ?        *)
Restored(row) == [row EXCEPT !.is_deleted = 0, !.deleted_at = NULL_TS, !.updated_at = now]

(* A soft delete of a travel that soft-deletes the travel's events too.    *)
delete_travel_Cascades(travel_id) ==
    /\ now < MaxClock
    /\ IF travel_id <= 0 THEN Failed("delete_travel", travel_id, 400)
       ELSE IF travel_id \notin TravelIds THEN Failed("delete_travel", travel_id, 404)
       ELSE IF travels[travel_id].is_deleted = 1 THEN Failed("delete_travel", travel_id, 409)
       ELSE /\ travels' = [travels EXCEPT ![travel_id] = SoftDeleted(@)]
            /\ events' = [e \in EventIds |->
                             IF events[e].travel_id = travel_id /\ events[e].is_deleted = 0
                             THEN SoftDeleted(events[e]) ELSE events[e]]
            /\ now' = now + 1
            /\ resp' = [Reply("delete_travel", travel_id, 200) EXCEPT !.deletedAt = now]
            /\ scan' = NoScan /\ UNCHANGED <<calls, connection>>
            /\ before' = [before EXCEPT !.travels[travel_id] = travels[travel_id]]
            /\ UNCHANGED event_types

delete_travel(travel_id) ==
    /\ now < MaxClock
    /\ IF travel_id <= 0 THEN Failed("delete_travel", travel_id, 400)
       ELSE IF travel_id \notin TravelIds THEN Failed("delete_travel", travel_id, 404)
       ELSE IF travels[travel_id].is_deleted = 1 THEN Failed("delete_travel", travel_id, 409)
       ELSE /\ travels' = [travels EXCEPT ![travel_id] = SoftDeleted(@)]
            /\ now' = now + 1
            /\ resp' = [Reply("delete_travel", travel_id, 200) EXCEPT !.deletedAt = now]
            /\ scan' = NoScan /\ UNCHANGED <<calls, connection>>
            /\ before' = [before EXCEPT !.travels[travel_id] = travels[travel_id]]
            /\ UNCHANGED <<event_types, events>>

restore_travel(travel_id) ==
    /\ now < MaxClock
    /\ IF travel_id <= 0 THEN Failed("restore_travel", travel_id, 400)
       ELSE IF travel_id \notin TravelIds THEN Failed("restore_travel", travel_id, 404)
       ELSE IF travels[travel_id].is_deleted = 0 THEN Failed("restore_travel", travel_id, 409)
       ELSE /\ travels' = [travels EXCEPT ![travel_id] = Restored(@)]
            /\ now' = now + 1
            /\ resp' = Reply("restore_travel", travel_id, 200)
            /\ scan' = NoScan /\ UNCHANGED <<calls, connection>>
            /\ UNCHANGED before
            /\ UNCHANGED <<event_types, events>>

(***************************************************************************)
(* Event types: src/routes/eventTypes.py                                   *)
(***************************************************************************)
ALLOWED_CATEGORIES ==
    {<<"a", "c", "c", "o", "m", "m", "o", "d", "a", "t", "i", "o", "n">>,
     <<"t", "r", "a", "n", "s", "p", "o", "r", "t", "a", "t", "i", "o", "n">>,
     <<"a", "c", "t", "i", "v", "i", "t", "y">>,
     <<"f", "o", "o", "d">>,
     <<"s", "h", "o", "p", "p", "i", "n", "g">>,
     <<"e", "n", "t", "e", "r", "t", "a", "i", "n", "m", "e", "n", "t">>,
     <<"h", "e", "a", "l", "t", "h">>,
     <<"b", "u", "s", "i", "n", "e", "s", "s">>,
     <<"e", "d", "u", "c", "a", "t", "i", "o", "n">>,
     <<"o", "t", "h", "e", "r">>}

HexDigits == {"0", "1", "2", "3", "4", "5", "6", "7", "8", "9",
              "A", "B", "C", "D", "E", "F", "a", "b", "c", "d", "e", "f"}

(* re.match(r'^#[0-9A-Fa-f]{6}$', color)                                   *)
validate_hex_color(color) ==
    /\ Len(color) = 7
    /\ color[1] = "#"
    /\ \A i \in 2..7 : color[i] \in HexDigits

validate_category(category) ==
    Lower(category) \in {Lower(cat) : cat \in ALLOWED_CATEGORIES}

validate_icon(icon) ==
    icon = NULL \/ (Len(icon) <= 10 /\ Strip(icon) # <<>>)

(* WHERE LOWER(name) = LOWER(?) AND LOWER(category) = LOWER(?)             *)
(*   AND is_deleted = 0 [AND id != ?]                                      *)
(* A duplicate query that compares name and category as they are written.  *)
DuplicateEventTypes_CaseSensitive(name, category, except_id) ==
    {t \in EventTypeIds :
        /\ event_types[t].name = name
        /\ event_types[t].category = category
        /\ event_types[t].is_deleted = 0
        /\ t # except_id}

DuplicateEventTypes(name, category, except_id) ==
    {t \in EventTypeIds :
        /\ Lower(event_types[t].name) = Lower(name)
        /\ Lower(event_types[t].category) = Lower(category)
        /\ event_types[t].is_deleted = 0
        /\ t # except_id}

(* WHERE clause of list_event_types.                                       *)
EventTypesWhere(f) ==
    {t \in EventTypeIds :
        /\ event_types[t].is_deleted = 0
        /\ Given(f.category) => Lower(event_types[t].category) = Lower(f.category)}

(* ORDER BY category ASC, name ASC                                         *)
EventTypesByCategoryName(a, b) ==
    IF event_types[a].category # event_types[b].category
    THEN TextLE(event_types[a].category, event_types[b].category)
    ELSE TextLE(event_types[a].name, event_types[b].name)

list_event_types_responses(limit, offset, f) ==
    IF Given(f.category) /\ ~validate_category(f.category)
    THEN {HttpError("list_event_types", NO_ID, 400)}
    ELSE {ListResponse("list_event_types", NO_ID, f, limit, offset,
                       Cardinality(EventTypesWhere(f)), LimitOffset(sq, limit, offset)) :
              sq \in OrderBy(EventTypesWhere(f),
                         {p \in EventTypeIds \X EventTypeIds : EventTypesByCategoryName(p[1], p[2])})}

list_event_types(limit, offset, f) ==
    \E r \in list_event_types_responses(limit, offset, f) : Listed(r)

DeletedEventTypesWhere == {t \in EventTypeIds : event_types[t].is_deleted = 1}

(* ORDER BY deleted_at DESC                                                *)
EventTypesLastDeletedFirst(a, b) == event_types[a].deleted_at >= event_types[b].deleted_at

list_deleted_event_types_responses(limit, offset) ==
    {ListResponse("list_deleted_event_types", NO_ID, NoFilter, limit, offset,
                  Cardinality(DeletedEventTypesWhere), LimitOffset(sq, limit, offset)) :
         sq \in OrderBy(DeletedEventTypesWhere,
                         {p \in EventTypeIds \X EventTypeIds : EventTypesLastDeletedFirst(p[1], p[2])})}

list_deleted_event_types(limit, offset) ==
    \E r \in list_deleted_event_types_responses(limit, offset) : Listed(r)

create_event_type(name, category, color, icon) ==
    /\ now < MaxClock
    /\ Len(event_types) < MaxEventTypes
    /\ IF ~validate_hex_color(color)
       THEN Rejected("create_event_type", NO_ID, 400, <<name, category, color>>)
       ELSE IF ~validate_category(category)
       THEN Rejected("create_event_type", NO_ID, 400, <<name, category, color>>)
       ELSE IF Given(icon) /\ ~validate_icon(icon)
       THEN Rejected("create_event_type", NO_ID, 400, <<name, category, color>>)
       ELSE IF Strip(sanitize_input(name)) = <<>>
       THEN Rejected("create_event_type", NO_ID, 400, <<name, category, color>>)
       ELSE IF Strip(sanitize_input(category)) = <<>>
       THEN Rejected("create_event_type", NO_ID, 400, <<name, category, color>>)
       ELSE IF DuplicateEventTypes(sanitize_input(name), sanitize_input(category), NO_ID) # {}
       THEN Rejected("create_event_type", NO_ID, 409, <<name, category, color>>)
       ELSE /\ event_types' = Append(event_types,
                   [name |-> sanitize_input(name),
                    category |-> Lower(sanitize_input(category)),
                    color |-> color,
                    icon |-> SanitizeOptional(icon),
                    is_deleted |-> 0,
                    deleted_at |-> NULL_TS,
                    created_at |-> now,
                    updated_at |-> now])
            /\ now' = now + 1
            /\ resp' = [Reply("create_event_type", NO_ID, 201)
                            EXCEPT !.created = Len(event_types) + 1,
                                   !.sent = <<name, category, color>>]
            /\ scan' = NoScan /\ UNCHANGED <<calls, connection>>
            /\ before' = [before EXCEPT !.event_types = Append(@, event_types'[Len(event_types) + 1])]
            /\ UNCHANGED <<travels, events>>

get_event_type(event_type_id) ==
    IF event_type_id <= 0 THEN Failed("get_event_type", event_type_id, 400)
    ELSE IF event_type_id \notin EventTypeIds THEN Failed("get_event_type", event_type_id, 404)
    ELSE IF event_types[event_type_id].is_deleted = 1
    THEN Failed("get_event_type", event_type_id, 410)
    ELSE Answered([Reply("get_event_type", event_type_id, 200)
                       EXCEPT !.count = UsageCount(event_type_id)])

(* update_fields of update_event_type: the columns the request provided.   *)
EventTypeColumns(name, category, color, icon) ==
    {c \in {"name"} : name # NULL} \cup {c \in {"category"} : category # NULL}
        \cup {c \in {"color"} : color # NULL} \cup {c \in {"icon"} : icon # NULL}

(* The UPDATE statement of update_event_type.                              *)
UpdatedEventType(row, name, category, color, icon) ==
    [row EXCEPT
        !.name = IF name # NULL THEN sanitize_input(name) ELSE @,
        !.category = IF category # NULL THEN Lower(sanitize_input(category)) ELSE @,
        !.color = IF color # NULL THEN color ELSE @,
        !.icon = IF icon # NULL THEN sanitize_input(icon) ELSE @,
        !.updated_at = now]

(* effective_name / effective_category of update_event_type: the request's *)
(* value as received when it is truthy, else the stored one.               *)
EffectiveValue(requested, existing) == IF Given(requested) THEN requested ELSE existing

(* An update of an event type that runs the UPDATE for a request without   *)
(* fields.                                                                 *)
update_event_type_EmptyAllowed(event_type_id, name, category, color, icon) ==
    /\ now < MaxClock
    /\ IF event_type_id <= 0 THEN FailedUpdate("update_event_type", event_type_id, 400, <<>>,
                         EventTypeColumns(name, category, color, icon))
       ELSE IF event_type_id \notin EventTypeIds
       THEN FailedUpdate("update_event_type", event_type_id, 404, <<>>,
                         EventTypeColumns(name, category, color, icon))
       ELSE IF event_types[event_type_id].is_deleted = 1
       THEN FailedUpdate("update_event_type", event_type_id, 410, <<>>,
                         EventTypeColumns(name, category, color, icon))
       ELSE IF name # NULL /\ Strip(sanitize_input(name)) = <<>>
       THEN FailedUpdate("update_event_type", event_type_id, 400, <<>>,
                         EventTypeColumns(name, category, color, icon))
       ELSE IF category # NULL /\ Strip(sanitize_input(category)) = <<>>
       THEN FailedUpdate("update_event_type", event_type_id, 400, <<>>,
                         EventTypeColumns(name, category, color, icon))
       ELSE IF category # NULL /\ ~validate_category(sanitize_input(category))
       THEN FailedUpdate("update_event_type", event_type_id, 400, <<>>,
                         EventTypeColumns(name, category, color, icon))
       ELSE IF color # NULL /\ ~validate_hex_color(color)
       THEN FailedUpdate("update_event_type", event_type_id, 400, <<>>,
                         EventTypeColumns(name, category, color, icon))
       ELSE IF icon # NULL /\ ~validate_icon(sanitize_input(icon))
       THEN FailedUpdate("update_event_type", event_type_id, 400, <<>>,
                         EventTypeColumns(name, category, color, icon))
       ELSE IF /\ (name # NULL \/ category # NULL)
               /\ DuplicateEventTypes(
                      EffectiveValue(name, event_types[event_type_id].name),
                      EffectiveValue(category, event_types[event_type_id].category),
                      event_type_id) # {}
       THEN FailedUpdate("update_event_type", event_type_id, 409, <<>>,
                         EventTypeColumns(name, category, color, icon))
       ELSE /\ event_types' = [event_types EXCEPT ![event_type_id] =
                   UpdatedEventType(@, name, category, color, icon)]
            /\ now' = now + 1
            /\ resp' = [Reply("update_event_type", event_type_id, 200) EXCEPT !.named =
                            EventTypeColumns(name, category, color, icon)]
            /\ scan' = NoScan /\ UNCHANGED <<calls, connection>>
            /\ UNCHANGED before
            /\ UNCHANGED <<travels, events>>

update_event_type(event_type_id, name, category, color, icon) ==
    /\ now < MaxClock
    /\ IF event_type_id <= 0 THEN FailedUpdate("update_event_type", event_type_id, 400, <<>>,
                         EventTypeColumns(name, category, color, icon))
       ELSE IF event_type_id \notin EventTypeIds
       THEN FailedUpdate("update_event_type", event_type_id, 404, <<>>,
                         EventTypeColumns(name, category, color, icon))
       ELSE IF event_types[event_type_id].is_deleted = 1
       THEN FailedUpdate("update_event_type", event_type_id, 410, <<>>,
                         EventTypeColumns(name, category, color, icon))
       ELSE IF name # NULL /\ Strip(sanitize_input(name)) = <<>>
       THEN FailedUpdate("update_event_type", event_type_id, 400, <<>>,
                         EventTypeColumns(name, category, color, icon))
       ELSE IF category # NULL /\ Strip(sanitize_input(category)) = <<>>
       THEN FailedUpdate("update_event_type", event_type_id, 400, <<>>,
                         EventTypeColumns(name, category, color, icon))
       ELSE IF category # NULL /\ ~validate_category(sanitize_input(category))
       THEN FailedUpdate("update_event_type", event_type_id, 400, <<>>,
                         EventTypeColumns(name, category, color, icon))
       ELSE IF color # NULL /\ ~validate_hex_color(color)
       THEN FailedUpdate("update_event_type", event_type_id, 400, <<>>,
                         EventTypeColumns(name, category, color, icon))
       ELSE IF icon # NULL /\ ~validate_icon(sanitize_input(icon))
       THEN FailedUpdate("update_event_type", event_type_id, 400, <<>>,
                         EventTypeColumns(name, category, color, icon))
       ELSE IF name = NULL /\ category = NULL /\ color = NULL /\ icon = NULL
       THEN FailedUpdate("update_event_type", event_type_id, 400, <<>>,
                         EventTypeColumns(name, category, color, icon))
       ELSE IF /\ (name # NULL \/ category # NULL)
               /\ DuplicateEventTypes(
                      EffectiveValue(name, event_types[event_type_id].name),
                      EffectiveValue(category, event_types[event_type_id].category),
                      event_type_id) # {}
       THEN FailedUpdate("update_event_type", event_type_id, 409, <<>>,
                         EventTypeColumns(name, category, color, icon))
       ELSE /\ event_types' = [event_types EXCEPT ![event_type_id] =
                   UpdatedEventType(@, name, category, color, icon)]
            /\ now' = now + 1
            /\ resp' = [Reply("update_event_type", event_type_id, 200) EXCEPT !.named =
                            EventTypeColumns(name, category, color, icon)]
            /\ scan' = NoScan /\ UNCHANGED <<calls, connection>>
            /\ UNCHANGED before
            /\ UNCHANGED <<travels, events>>

(* detail = f"Cannot delete event type '...' - it is used by {usage_count}  *)
(* active events", raised as a plain HTTPException.                        *)
InUseError(event_type_id, usage_count) ==
    [HttpError("delete_event_type", event_type_id, 409) EXCEPT !.detail_count = usage_count]

(* A soft delete of an event type that does not count the events using it. *)
delete_event_type_Unguarded(event_type_id) ==
    /\ now < MaxClock
    /\ IF event_type_id <= 0 THEN Failed("delete_event_type", event_type_id, 400)
       ELSE IF event_type_id \notin EventTypeIds
       THEN Failed("delete_event_type", event_type_id, 404)
       ELSE IF event_types[event_type_id].is_deleted = 1
       THEN Failed("delete_event_type", event_type_id, 409)
       ELSE /\ event_types' = [event_types EXCEPT ![event_type_id] = SoftDeleted(@)]
            /\ now' = now + 1
            /\ resp' = [Reply("delete_event_type", event_type_id, 200) EXCEPT !.deletedAt = now]
            /\ scan' = NoScan /\ UNCHANGED <<calls, connection>>
            /\ before' = [before EXCEPT !.event_types[event_type_id] = event_types[event_type_id]]
            /\ UNCHANGED <<travels, events>>

delete_event_type(event_type_id) ==
    /\ now < MaxClock
    /\ IF event_type_id <= 0 THEN Failed("delete_event_type", event_type_id, 400)
       ELSE IF event_type_id \notin EventTypeIds
       THEN Failed("delete_event_type", event_type_id, 404)
       ELSE IF event_types[event_type_id].is_deleted = 1
       THEN Failed("delete_event_type", event_type_id, 409)
       ELSE IF UsageCount(event_type_id) > 0
       THEN /\ resp' = InUseError(event_type_id, UsageCount(event_type_id))
            /\ UNCHANGED <<travels, event_types, events, now, scan, before, calls, connection>>
       ELSE /\ event_types' = [event_types EXCEPT ![event_type_id] = SoftDeleted(@)]
            /\ now' = now + 1
            /\ resp' = [Reply("delete_event_type", event_type_id, 200) EXCEPT !.deletedAt = now]
            /\ scan' = NoScan /\ UNCHANGED <<calls, connection>>
            /\ before' = [before EXCEPT !.event_types[event_type_id] = event_types[event_type_id]]
            /\ UNCHANGED <<travels, events>>

restore_event_type(event_type_id) ==
    /\ now < MaxClock
    /\ IF event_type_id <= 0 THEN Failed("restore_event_type", event_type_id, 400)
       ELSE IF event_type_id \notin EventTypeIds
       THEN Failed("restore_event_type", event_type_id, 404)
       ELSE IF event_types[event_type_id].is_deleted = 0
       THEN Failed("restore_event_type", event_type_id, 409)
       ELSE /\ event_types' = [event_types EXCEPT ![event_type_id] = Restored(@)]
            /\ now' = now + 1
            /\ resp' = Reply("restore_event_type", event_type_id, 200)
            /\ scan' = NoScan /\ UNCHANGED <<calls, connection>>
            /\ UNCHANGED before
            /\ UNCHANGED <<travels, events>>

(***************************************************************************)
(* Events: src/routes/events.py                                            *)
(***************************************************************************)
(* WHERE clause of list_travel_events.                                     *)
EventsWhere(travel_id, f) ==
    {e \in EventIds :
        /\ events[e].travel_id = travel_id
        /\ events[e].is_deleted = 0
        /\ f.start_date_from # NO_DATE =>
               DateOf(events[e].start_datetime) >= f.start_date_from
        /\ f.start_date_to # NO_DATE =>
               DateOf(events[e].start_datetime) <= f.start_date_to
        /\ f.event_type_id # 0 => events[e].event_type_id = f.event_type_id
        /\ Given(f.location) => Like(events[e].location, f.location)}

(* ORDER BY e.start_datetime ASC                                           *)
EventsByStart(a, b) == events[a].start_datetime <= events[b].start_datetime

list_travel_events_responses(travel_id, limit, offset, f) ==
    IF travel_id <= 0 THEN {HttpError("list_travel_events", travel_id, 400)}
    ELSE IF travel_id \notin TravelIds THEN {HttpError("list_travel_events", travel_id, 404)}
    ELSE IF travels[travel_id].is_deleted = 1
    THEN {HttpError("list_travel_events", travel_id, 410)}
    ELSE IF f.start_date_from = BAD_DATE \/ f.start_date_to = BAD_DATE
    THEN {HttpError("list_travel_events", travel_id, 400)}
    ELSE {ListResponse("list_travel_events", travel_id, f, limit, offset,
                       Cardinality(EventsWhere(travel_id, f)), LimitOffset(sq, limit, offset)) :
              sq \in OrderBy(EventsWhere(travel_id, f),
                         {p \in EventIds \X EventIds : EventsByStart(p[1], p[2])})}

list_travel_events(travel_id, limit, offset, f) ==
    \E r \in list_travel_events_responses(travel_id, limit, offset, f) : Listed(r)

(* WHERE e.travel_id = ? AND e.is_deleted = 1                              *)
DeletedEventsWhere(travel_id) ==
    {e \in EventIds : events[e].travel_id = travel_id /\ events[e].is_deleted = 1}

(* ORDER BY e.deleted_at DESC                                              *)
EventsLastDeletedFirst(a, b) == events[a].deleted_at >= events[b].deleted_at

(* A deleted-events list that refuses a soft-deleted travel as the active  *)
(* list does.                                                              *)
list_travel_deleted_events_responses_Gone(travel_id, limit, offset) ==
    IF travel_id <= 0 THEN {HttpError("list_travel_deleted_events", travel_id, 400)}
    ELSE IF travel_id \notin TravelIds
    THEN {HttpError("list_travel_deleted_events", travel_id, 404)}
    ELSE IF travels[travel_id].is_deleted = 1
    THEN {HttpError("list_travel_deleted_events", travel_id, 410)}
    ELSE {ListResponse("list_travel_deleted_events", travel_id, NoFilter, limit, offset,
                       Cardinality(DeletedEventsWhere(travel_id)),
                       LimitOffset(sq, limit, offset)) :
              sq \in OrderBy(DeletedEventsWhere(travel_id),
                         {p \in EventIds \X EventIds : EventsLastDeletedFirst(p[1], p[2])})}

list_travel_deleted_events_responses(travel_id, limit, offset) ==
    IF travel_id <= 0 THEN {HttpError("list_travel_deleted_events", travel_id, 400)}
    ELSE IF travel_id \notin TravelIds
    THEN {HttpError("list_travel_deleted_events", travel_id, 404)}
    ELSE {ListResponse("list_travel_deleted_events", travel_id, NoFilter, limit, offset,
                       Cardinality(DeletedEventsWhere(travel_id)),
                       LimitOffset(sq, limit, offset)) :
              sq \in OrderBy(DeletedEventsWhere(travel_id),
                         {p \in EventIds \X EventIds : EventsLastDeletedFirst(p[1], p[2])})}

list_travel_deleted_events(travel_id, limit, offset) ==
    \E r \in list_travel_deleted_events_responses(travel_id, limit, offset) : Listed(r)

(* SELECT id, name FROM event_types WHERE id = ? AND is_deleted = 0        *)
(* An event type lookup without the is_deleted condition.                  *)
ActiveEventType_AnyStored(event_type_id) == event_type_id \in EventTypeIds

ActiveEventType(event_type_id) ==
    event_type_id \in EventTypeIds /\ event_types[event_type_id].is_deleted = 0

create_travel_event(travel_id, title, description, event_type_id, start_datetime, end_datetime, location) ==
    /\ now < MaxClock
    /\ Len(events) < MaxEvents
    /\ IF travel_id <= 0 THEN Rejected("create_travel_event", travel_id, 400, <<event_type_id>>)
       ELSE IF travel_id \notin TravelIds THEN Rejected("create_travel_event", travel_id, 404, <<event_type_id>>)
       ELSE IF travels[travel_id].is_deleted = 1
       THEN Rejected("create_travel_event", travel_id, 410, <<event_type_id>>)
       ELSE IF ~ActiveEventType(event_type_id)
       THEN Rejected("create_travel_event", travel_id, 400, <<event_type_id>>)
       ELSE IF ~ValidDate(start_datetime) \/ ~ValidDate(end_datetime)
       THEN Rejected("create_travel_event", travel_id, 400, <<event_type_id>>)
       ELSE IF start_datetime >= end_datetime
       THEN Rejected("create_travel_event", travel_id, 400, <<event_type_id>>)
       ELSE IF Strip(sanitize_input(title)) = <<>>
       THEN Rejected("create_travel_event", travel_id, 400, <<event_type_id>>)
       ELSE /\ events' = Append(events,
                   [travel_id |-> travel_id,
                    title |-> sanitize_input(title),
                    description |-> SanitizeOptional(description),
                    event_type_id |-> event_type_id,
                    start_datetime |-> start_datetime,
                    end_datetime |-> end_datetime,
                    location |-> SanitizeOptional(location),
                    is_deleted |-> 0,
                    deleted_at |-> NULL_TS,
                    created_at |-> now,
                    updated_at |-> now])
            /\ now' = now + 1
            /\ resp' = [Reply("create_travel_event", travel_id, 201)
                            EXCEPT !.created = Len(events) + 1, !.sent = <<event_type_id>>]
            /\ scan' = NoScan /\ UNCHANGED <<calls, connection>>
            /\ before' = [before EXCEPT !.events = Append(@, events'[Len(events) + 1])]
            /\ UNCHANGED <<travels, event_types>>

get_event(event_id) ==
    IF event_id <= 0 THEN Failed("get_event", event_id, 400)
    ELSE IF event_id \notin EventIds THEN Failed("get_event", event_id, 404)
    ELSE IF events[event_id].is_deleted = 1 THEN Failed("get_event", event_id, 410)
    ELSE Answered(Reply("get_event", event_id, 200))

(* update_fields of update_event: the columns the request provided.        *)
EventColumns(title, description, event_type_id, start_datetime, end_datetime, location) ==
    {c \in {"title"} : title # NULL} \cup {c \in {"description"} : description # NULL}
        \cup {c \in {"event_type_id"} : event_type_id # NO_TYPE}
        \cup {c \in {"start_datetime"} : start_datetime # NO_DATE}
        \cup {c \in {"end_datetime"} : end_datetime # NO_DATE}
        \cup {c \in {"location"} : location # NULL}

(* The UPDATE statement of update_event.                                   *)
UpdatedEvent(row, title, description, event_type_id, start_datetime, end_datetime, location) ==
    [row EXCEPT
        !.title = IF title # NULL THEN sanitize_input(title) ELSE @,
        !.description = IF description # NULL THEN sanitize_input(description) ELSE @,
        !.event_type_id = IF event_type_id # NO_TYPE THEN event_type_id ELSE @,
        !.start_datetime = IF start_datetime # NO_DATE THEN start_datetime ELSE @,
        !.end_datetime = IF end_datetime # NO_DATE THEN end_datetime ELSE @,
        !.location = IF location # NULL THEN sanitize_input(location) ELSE @,
        !.updated_at = now]

(* An update of an event that stores event_type_id without looking the    *)
(* event type up.                                                          *)
update_event_UncheckedType(event_id, title, description, event_type_id, start_datetime, end_datetime, location) ==
    /\ now < MaxClock
    /\ IF event_id <= 0 THEN FailedUpdate("update_event", event_id, 400, <<event_type_id>>,
                         EventColumns(title, description, event_type_id, start_datetime, end_datetime, location))
       ELSE IF event_id \notin EventIds THEN FailedUpdate("update_event", event_id, 404, <<event_type_id>>,
                         EventColumns(title, description, event_type_id, start_datetime, end_datetime, location))
       ELSE IF events[event_id].is_deleted = 1 THEN FailedUpdate("update_event", event_id, 410, <<event_type_id>>,
                         EventColumns(title, description, event_type_id, start_datetime, end_datetime, location))
       ELSE IF title # NULL /\ Strip(sanitize_input(title)) = <<>>
       THEN FailedUpdate("update_event", event_id, 400, <<event_type_id>>,
                         EventColumns(title, description, event_type_id, start_datetime, end_datetime, location))
       ELSE IF start_datetime = BAD_DATE \/ end_datetime = BAD_DATE
       THEN FailedUpdate("update_event", event_id, 400, <<event_type_id>>,
                         EventColumns(title, description, event_type_id, start_datetime, end_datetime, location))
       ELSE IF /\ title = NULL /\ description = NULL /\ event_type_id = NO_TYPE
               /\ start_datetime = NO_DATE /\ end_datetime = NO_DATE /\ location = NULL
       THEN FailedUpdate("update_event", event_id, 400, <<event_type_id>>,
                         EventColumns(title, description, event_type_id, start_datetime, end_datetime, location))
       ELSE IF /\ start_datetime # NO_DATE /\ end_datetime # NO_DATE
               /\ start_datetime >= end_datetime
       THEN FailedUpdate("update_event", event_id, 400, <<event_type_id>>,
                         EventColumns(title, description, event_type_id, start_datetime, end_datetime, location))
       ELSE IF /\ start_datetime # NO_DATE /\ end_datetime = NO_DATE
               /\ start_datetime >= events[event_id].end_datetime
       THEN FailedUpdate("update_event", event_id, 400, <<event_type_id>>,
                         EventColumns(title, description, event_type_id, start_datetime, end_datetime, location))
       ELSE IF /\ start_datetime = NO_DATE /\ end_datetime # NO_DATE
               /\ events[event_id].start_datetime >= end_datetime
       THEN FailedUpdate("update_event", event_id, 400, <<event_type_id>>,
                         EventColumns(title, description, event_type_id, start_datetime, end_datetime, location))
       ELSE /\ events' = [events EXCEPT ![event_id] =
                   UpdatedEvent(@, title, description, event_type_id,
                                start_datetime, end_datetime, location)]
            /\ now' = now + 1
            /\ resp' = [Reply("update_event", event_id, 200) EXCEPT !.sent = <<event_type_id>>,
                            !.named = EventColumns(title, description, event_type_id, start_datetime, end_datetime, location)]
            /\ scan' = NoScan /\ UNCHANGED <<calls, connection>>
            /\ UNCHANGED before
            /\ UNCHANGED <<travels, event_types>>

update_event(event_id, title, description, event_type_id, start_datetime, end_datetime, location) ==
    /\ now < MaxClock
    /\ IF event_id <= 0 THEN FailedUpdate("update_event", event_id, 400, <<event_type_id>>,
                         EventColumns(title, description, event_type_id, start_datetime, end_datetime, location))
       ELSE IF event_id \notin EventIds THEN FailedUpdate("update_event", event_id, 404, <<event_type_id>>,
                         EventColumns(title, description, event_type_id, start_datetime, end_datetime, location))
       ELSE IF events[event_id].is_deleted = 1 THEN FailedUpdate("update_event", event_id, 410, <<event_type_id>>,
                         EventColumns(title, description, event_type_id, start_datetime, end_datetime, location))
       ELSE IF title # NULL /\ Strip(sanitize_input(title)) = <<>>
       THEN FailedUpdate("update_event", event_id, 400, <<event_type_id>>,
                         EventColumns(title, description, event_type_id, start_datetime, end_datetime, location))
       ELSE IF event_type_id # NO_TYPE /\ ~ActiveEventType(event_type_id)
       THEN FailedUpdate("update_event", event_id, 400, <<event_type_id>>,
                         EventColumns(title, description, event_type_id, start_datetime, end_datetime, location))
       ELSE IF start_datetime = BAD_DATE \/ end_datetime = BAD_DATE
       THEN FailedUpdate("update_event", event_id, 400, <<event_type_id>>,
                         EventColumns(title, description, event_type_id, start_datetime, end_datetime, location))
       ELSE IF /\ title = NULL /\ description = NULL /\ event_type_id = NO_TYPE
               /\ start_datetime = NO_DATE /\ end_datetime = NO_DATE /\ location = NULL
       THEN FailedUpdate("update_event", event_id, 400, <<event_type_id>>,
                         EventColumns(title, description, event_type_id, start_datetime, end_datetime, location))
       ELSE IF /\ start_datetime # NO_DATE /\ end_datetime # NO_DATE
               /\ start_datetime >= end_datetime
       THEN FailedUpdate("update_event", event_id, 400, <<event_type_id>>,
                         EventColumns(title, description, event_type_id, start_datetime, end_datetime, location))
       ELSE IF /\ start_datetime # NO_DATE /\ end_datetime = NO_DATE
               /\ start_datetime >= events[event_id].end_datetime
       THEN FailedUpdate("update_event", event_id, 400, <<event_type_id>>,
                         EventColumns(title, description, event_type_id, start_datetime, end_datetime, location))
       ELSE IF /\ start_datetime = NO_DATE /\ end_datetime # NO_DATE
               /\ events[event_id].start_datetime >= end_datetime
       THEN FailedUpdate("update_event", event_id, 400, <<event_type_id>>,
                         EventColumns(title, description, event_type_id, start_datetime, end_datetime, location))
       ELSE /\ events' = [events EXCEPT ![event_id] =
                   UpdatedEvent(@, title, description, event_type_id,
                                start_datetime, end_datetime, location)]
            /\ now' = now + 1
            /\ resp' = [Reply("update_event", event_id, 200) EXCEPT !.sent = <<event_type_id>>,
                            !.named = EventColumns(title, description, event_type_id, start_datetime, end_datetime, location)]
            /\ scan' = NoScan /\ UNCHANGED <<calls, connection>>
            /\ UNCHANGED before
            /\ UNCHANGED <<travels, event_types>>

(* A delete of an event that removes its row from the table.               *)
delete_event_RemovesRow(event_id) ==
    /\ now < MaxClock
    /\ IF event_id <= 0 THEN Failed("delete_event", event_id, 400)
       ELSE IF event_id \notin EventIds THEN Failed("delete_event", event_id, 404)
       ELSE IF events[event_id].is_deleted = 1 THEN Failed("delete_event", event_id, 409)
       ELSE /\ events' = [i \in 1..(Len(events) - 1) |->
                             IF i < event_id THEN events[i] ELSE events[i + 1]]
            /\ now' = now + 1
            /\ resp' = [Reply("delete_event", event_id, 200) EXCEPT !.deletedAt = now]
            /\ scan' = NoScan /\ UNCHANGED <<calls, connection>>
            /\ before' = [before EXCEPT !.events[event_id] = events[event_id]]
            /\ UNCHANGED <<travels, event_types>>

(* A soft delete of an event that does not look at is_deleted first.       *)
delete_event_Redeletes(event_id) ==
    /\ now < MaxClock
    /\ IF event_id <= 0 THEN Failed("delete_event", event_id, 400)
       ELSE IF event_id \notin EventIds THEN Failed("delete_event", event_id, 404)
       ELSE /\ events' = [events EXCEPT ![event_id] = SoftDeleted(@)]
            /\ now' = now + 1
            /\ resp' = [Reply("delete_event", event_id, 200) EXCEPT !.deletedAt = now]
            /\ scan' = NoScan /\ UNCHANGED <<calls, connection>>
            /\ before' = [before EXCEPT !.events[event_id] = events[event_id]]
            /\ UNCHANGED <<travels, event_types>>

delete_event(event_id) ==
    /\ now < MaxClock
    /\ IF event_id <= 0 THEN Failed("delete_event", event_id, 400)
       ELSE IF event_id \notin EventIds THEN Failed("delete_event", event_id, 404)
       ELSE IF events[event_id].is_deleted = 1 THEN Failed("delete_event", event_id, 409)
       ELSE /\ events' = [events EXCEPT ![event_id] = SoftDeleted(@)]
            /\ now' = now + 1
            /\ resp' = [Reply("delete_event", event_id, 200) EXCEPT !.deletedAt = now]
            /\ scan' = NoScan /\ UNCHANGED <<calls, connection>>
            /\ before' = [before EXCEPT !.events[event_id] = events[event_id]]
            /\ UNCHANGED <<travels, event_types>>

(* A restore of an event that does not look at is_deleted first.           *)
restore_event_Rerestores(event_id) ==
    /\ now < MaxClock
    /\ IF event_id <= 0 THEN Failed("restore_event", event_id, 400)
       ELSE IF event_id \notin EventIds THEN Failed("restore_event", event_id, 404)
       ELSE /\ events' = [events EXCEPT ![event_id] = Restored(@)]
            /\ now' = now + 1
            /\ resp' = Reply("restore_event", event_id, 200)
            /\ scan' = NoScan /\ UNCHANGED <<calls, connection>>
            /\ UNCHANGED before
            /\ UNCHANGED <<travels, event_types>>

restore_event(event_id) ==
    /\ now < MaxClock
    /\ IF event_id <= 0 THEN Failed("restore_event", event_id, 400)
       ELSE IF event_id \notin EventIds THEN Failed("restore_event", event_id, 404)
       ELSE IF events[event_id].is_deleted = 0 THEN Failed("restore_event", event_id, 409)
       ELSE /\ events' = [events EXCEPT ![event_id] = Restored(@)]
            /\ now' = now + 1
            /\ resp' = Reply("restore_event", event_id, 200)
            /\ scan' = NoScan /\ UNCHANGED <<calls, connection>>
            /\ UNCHANGED before
            /\ UNCHANGED <<travels, event_types>>


(***************************************************************************)
(* Requests the clients send.                                              *)
(***************************************************************************)
T_A == <<"A">>
T_B == <<"<", "b", ">", "B">>
T_Blank == <<" ">>
N_Flight == <<"F", "l", "y">>
N_flight == <<"f", "l", "y">>
N_Tagged == <<"<", "i", ">", "f", "l", "y">>
C_food == <<"f", "o", "o", "d">>
C_Food == <<"F", "o", "o", "d">>
C_other == <<"o", "t", "h", "e", "r">>
C_bogus == <<"x">>
Col_ok == <<"#", "F", "F", "0", "0", "a", "a">>
Col_bad == <<"r", "e", "d">>

(* Path ids: zero, every stored id and one id past the last row.           *)
PathIds(n) == 0..(n + 1)

TravelTitles == {T_A, T_Blank}
TravelDates == {BAD_DATE, 0, 2}
CreateNames == {N_Flight, N_flight}
CreateCategories == {C_food, C_bogus}
CreateColors == {Col_ok, Col_bad}
EventStarts == {1, 2, 5}
EventEnds == {5}
UpdateTravelStarts == {1, 2}
UpdateTravelEnds == {1}
UpdateEventStarts == {5}
UpdateEventEnds == {2}
(* <<limit, offset>> of a list request that does not continue a scan.      *)
Pages == {<<1, 0>>, <<1, 1>>, <<2, 0>>, <<2, 1>>}
FilteredPages == {<<1, 0>>, <<2, 1>>}

TravelFilters ==
    {NoFilter, [NoFilter EXCEPT !.title = <<"a">>], [NoFilter EXCEPT !.start_date_from = BAD_DATE]}
DeletedTravelFilters ==
    {NoFilter, [NoFilter EXCEPT !.deleted_date_from = 1], [NoFilter EXCEPT !.deleted_date_to = 1],
     [NoFilter EXCEPT !.deleted_date_from = BAD_DATE]}
EventFilters ==
    {NoFilter, [NoFilter EXCEPT !.start_date_from = 1], [NoFilter EXCEPT !.event_type_id = 1]}
EventTypeFilters ==
    {NoFilter, [NoFilter EXCEPT !.category = C_Food], [NoFilter EXCEPT !.category = C_bogus]}

Init ==
    /\ travels = <<>>
    /\ event_types = <<>>
    /\ events = <<>>
    /\ now = 0
    /\ resp = NoResponse
    /\ scan = NoScan
    /\ before = [travels |-> <<>>, event_types |-> <<>>, events |-> <<>>]
    /\ calls = <<>>
    /\ connection = "open"

(***************************************************************************)
(* A read or a rejected request leaves the store as it was, so each store  *)
(* state is explored with every such request as the step that follows the  *)
(* last successful write; from a list response the client goes on only     *)
(* with the next page of the same list.                                    *)
(***************************************************************************)
WriteOps ==
    {"create_travel", "update_travel", "delete_travel", "restore_travel",
     "create_event_type", "update_event_type", "delete_event_type", "restore_event_type",
     "create_travel_event", "update_event", "delete_event", "restore_event"}

Settled == resp.op = "none" \/ (resp.op \in WriteOps /\ resp.status \in {200, 201})

(* The list requests <<limit, offset, filter>> that may come next: any     *)
(* first request, or the next page of the scan under way, up to one page   *)
(* past the last row.                                                      *)
ListRequests(op, id, filters) ==
    IF Settled
    THEN {<<p[1], p[2], NoFilter>> : p \in Pages}
             \cup {<<p[1], p[2], f>> : p \in FilteredPages, f \in filters \ {NoFilter}}
    ELSE IF scan.active /\ scan.op = op /\ scan.id = id /\ scan.next <= scan.total
    THEN {<<scan.limit, scan.next, scan.req>>}
    ELSE {}

Next ==
    \/ \E q \in ListRequests("list_travels", NO_ID, TravelFilters) :
           list_travels(q[1], q[2], q[3])
    \/ \E q \in ListRequests("list_deleted_travels", NO_ID, DeletedTravelFilters) :
           list_deleted_travels(q[1], q[2], q[3])
    \/ /\ Settled
       /\ \E t \in TravelTitles, s \in TravelDates, e \in TravelDates :
              create_travel(t, NULL, s, e, NULL)
    \/ /\ Settled
       /\ \E id \in PathIds(Len(travels)) : get_travel(id)
    \/ /\ Settled
       /\ \E id \in PathIds(Len(travels)) :
              \/ update_travel(id, T_B, NULL, NO_DATE, NO_DATE, NULL)
              \/ update_travel(id, NULL, NULL, NO_DATE, NO_DATE, NULL)
              \/ \E d \in UpdateTravelStarts : update_travel(id, NULL, NULL, d, NO_DATE, NULL)
              \/ \E d \in UpdateTravelEnds : update_travel(id, NULL, NULL, NO_DATE, d, NULL)
              \/ update_travel(id, NULL, NULL, 2, 1, NULL)
              \/ update_travel(id, T_B, NULL, 2, NO_DATE, NULL)
    \/ /\ Settled
       /\ \E id \in PathIds(Len(travels)) : delete_travel(id)
    \/ /\ Settled
       /\ \E id \in PathIds(Len(travels)) : restore_travel(id)
    \/ \E q \in ListRequests("list_event_types", NO_ID, EventTypeFilters) :
           list_event_types(q[1], q[2], q[3])
    \/ \E q \in ListRequests("list_deleted_event_types", NO_ID, {NoFilter}) :
           list_deleted_event_types(q[1], q[2])
    \/ /\ Settled
       /\ \E n \in CreateNames, c \in CreateCategories, col \in CreateColors :
              create_event_type(n, c, col, NULL)
    \/ /\ Settled
       /\ \E id \in PathIds(Len(event_types)) : get_event_type(id)
    \/ /\ Settled
       /\ \E id \in PathIds(Len(event_types)) :
              \/ update_event_type(id, N_Tagged, NULL, NULL, NULL)
              \/ update_event_type(id, NULL, C_other, NULL, NULL)
              \/ update_event_type(id, NULL, NULL, NULL, NULL)
              \/ update_event_type(id, N_Tagged, C_bogus, NULL, NULL)
              \/ update_event_type(id, N_flight, NULL, Col_ok, NULL)
    \/ /\ Settled
       /\ \E id \in PathIds(Len(event_types)) : delete_event_type(id)
    \/ /\ Settled
       /\ \E id \in PathIds(Len(event_types)) : restore_event_type(id)
    \/ \E id \in PathIds(Len(travels)) :
           \E q \in ListRequests("list_travel_events", id, EventFilters) :
               list_travel_events(id, q[1], q[2], q[3])
    \/ \E id \in PathIds(Len(travels)) :
           \E q \in ListRequests("list_travel_deleted_events", id, {NoFilter}) :
               list_travel_deleted_events(id, q[1], q[2])
    \/ /\ Settled
       /\ \E id \in PathIds(Len(travels)), ty \in PathIds(Len(event_types)),
             s \in EventStarts, e \in EventEnds :
              create_travel_event(id, T_A, NULL, ty, s, e, NULL)
    \/ /\ Settled
       /\ \E id \in PathIds(Len(events)) : get_event(id)
    \/ /\ Settled
       /\ \E id \in PathIds(Len(events)) :
              \/ update_event(id, T_B, NULL, NO_TYPE, NO_DATE, NO_DATE, NULL)
              \/ update_event(id, NULL, NULL, NO_TYPE, NO_DATE, NO_DATE, NULL)
              \/ \E ty \in PathIds(Len(event_types)) :
                     update_event(id, NULL, NULL, ty, NO_DATE, NO_DATE, NULL)
              \/ \E d \in UpdateEventStarts :
                     update_event(id, NULL, NULL, NO_TYPE, d, NO_DATE, NULL)
              \/ \E d \in UpdateEventEnds :
                     update_event(id, NULL, NULL, NO_TYPE, NO_DATE, d, NULL)
              \/ update_event(id, NULL, NULL, NO_TYPE, 5, 2, NULL)
              \/ update_event(id, T_B, NULL, NO_TYPE, BAD_DATE, NO_DATE, NULL)
    \/ /\ Settled
       /\ \E id \in PathIds(Len(events)) : delete_event(id)
    \/ /\ Settled
       /\ \E id \in PathIds(Len(events)) : restore_event(id)
    \/ Settled /\ nonexistent_endpoint
    \/ Settled /\ post_health

Spec == Init /\ [][Next]_vars

(* The store after one travel and one event type were created within the   *)
(* first tick of the clock, no request answered since.                     *)
InitStored ==
    /\ travels = <<[title |-> sanitize_input(T_A), description |-> NULL,
                    start_date |-> 0, end_date |-> 2, destination |-> NULL,
                    is_deleted |-> 0, deleted_at |-> NULL_TS,
                    created_at |-> 0, updated_at |-> 0]>>
    /\ event_types = <<[name |-> sanitize_input(N_Flight),
                        category |-> Lower(sanitize_input(C_food)),
                        color |-> Col_ok, icon |-> NULL,
                        is_deleted |-> 0, deleted_at |-> NULL_TS,
                        created_at |-> 0, updated_at |-> 0]>>
    /\ events = <<>>
    /\ now = 1
    /\ resp = NoResponse
    /\ scan = NoScan
    /\ before = [travels |-> travels, event_types |-> event_types, events |-> <<>>]
    /\ calls = <<>>
    /\ connection = "open"

SpecStored == InitStored /\ [][Next]_vars

(***************************************************************************)
(* Requests handled at the same moment, and storage failures.  No handler  *)
(* holds a lock or a transaction across its statements                     *)
(* (src/database/db.py commits each write on its own), so when several     *)
(* server processes share the database file the statements of two handlers *)
(* interleave freely; one process alone runs each handler without          *)
(* suspension, which is the behaviour in which the steps of a request are  *)
(* consecutive.  Each step below is one call of the storage accessor        *)
(* together with the handler code that precedes it.                        *)
(***************************************************************************)
MaxCalls == 2

CallIds == 1..Len(calls)

(* No exception.                                                           *)
NoException == [cls |-> "", status_code |-> 0, detail |-> ""]

(* raise HTTPException(status_code=..., detail=...)                        *)
HTTPException(status_code, detail) ==
    [cls |-> "HTTPException", status_code |-> status_code, detail |-> detail]

(* What sqlite3 raises when a statement, a commit or the opening of the    *)
(* database file fails.                                                    *)
OperationalError == [cls |-> "OperationalError", status_code |-> 0, detail |-> "disk I/O error"]

(* What Python raises when a local variable is read before it was bound.   *)
UnboundLocalError ==
    [cls |-> "UnboundLocalError", status_code |-> 0,
     detail |-> "cannot access local variable 'conn' where it is not associated with a value"]

(* The detail of a 400, 404, 409 or 410 a handler raises.                  *)
DomainDetail == "as raised at the point of detection"

(* The points of a request at which the storage may fail.                  *)
Faults == {"none", "connect", "execute", "commit", "fetch"}

(* The accessor returned: nothing raised, nothing rolled back.             *)
NoOutcome == [raised |-> NoException, original |-> NoException, committed |-> FALSE, rolled_back |-> FALSE]

(* A request as received: nothing read, nothing written.                   *)
NewCall(op, id) ==
    [op |-> op, id |-> id, title |-> NULL, start_date |-> NO_DATE, end_date |-> NO_DATE,
     name |-> NULL, category |-> NULL, color |-> NULL, fault |-> "none",
     pc |-> "start", seen |-> <<>>, read_at |-> 0, wrote_at |-> 0, created |-> NO_ID,
     write |-> NoOutcome, raised |-> NoException,
     status |-> 0, message |-> "", error |-> NoError, returned |-> <<>>]

ConcurrentRequests ==
    {[NewCall("update_travel", 1) EXCEPT !.title = T_B],
     [NewCall("update_travel", 1) EXCEPT !.title = T_A, !.start_date = 1],
     [NewCall("update_travel", 1) EXCEPT !.end_date = 1],
     [NewCall("create_travel", NO_ID) EXCEPT !.title = T_B, !.start_date = 1, !.end_date = 2],
     [NewCall("create_event_type", NO_ID) EXCEPT !.name = N_flight, !.category = C_food, !.color = Col_ok],
     [NewCall("create_event_type", NO_ID) EXCEPT !.name = N_Tagged, !.category = C_food, !.color = Col_ok],
     NewCall("restore_event_type", 1)}

(* get_connection fails: there is no connection yet and none can be made.  *)
ConnectFails(p) == connection = "none" /\ calls[p].fault = "connect"

(* execute_query: the statement runs and is committed, and the accessor    *)
(* returns; or an exception is raised in the try block, the except block   *)
(* calls conn.rollback() and re-raises.  When get_connection raised, conn  *)
(* was never bound and conn.rollback() raises in place of the re-raise.    *)
execute_query(p) ==
    IF ConnectFails(p)
    THEN [raised |-> UnboundLocalError, original |-> OperationalError,
          committed |-> FALSE, rolled_back |-> FALSE]
    ELSE IF calls[p].fault \in {"execute", "commit"}
    THEN [raised |-> OperationalError, original |-> OperationalError,
          committed |-> FALSE, rolled_back |-> TRUE]
    ELSE [NoOutcome EXCEPT !.committed = TRUE]

(* execute_insert: the same try and except around an INSERT.               *)
execute_insert(p) ==
    IF ConnectFails(p)
    THEN [raised |-> UnboundLocalError, original |-> OperationalError,
          committed |-> FALSE, rolled_back |-> FALSE]
    ELSE IF calls[p].fault \in {"execute", "commit"}
    THEN [raised |-> OperationalError, original |-> OperationalError,
          committed |-> FALSE, rolled_back |-> TRUE]
    ELSE [NoOutcome EXCEPT !.committed = TRUE]

(* fetch_one: the exception raised, NoException when the row is returned;  *)
(* after a write the "fetch" fault is the failure of the SELECT.           *)
fetch_one(p) ==
    IF ConnectFails(p) \/ (calls[p].pc = "fetch" /\ calls[p].fault = "fetch")
    THEN OperationalError
    ELSE NoException

(* The call after an exception was raised in the try block of its handler. *)
Raise(c, exc) == [c EXCEPT !.raised = exc, !.pc = "caught"]

(* The connection after an accessor call that raised exc.                  *)
ConnectionAfter(p) == IF ConnectFails(p) THEN "none" ELSE "open"

(* A handler whose except clause puts the text of the exception in the     *)
(* detail of the 500.                                                      *)
HandlerExcept_Leaks(op, exc) ==
    IF exc.cls = "HTTPException" THEN exc
    ELSE HTTPException(500, exc.detail)

(* except HTTPException: raise                                             *)
(* except Exception as e: log_error(...); raise HTTPException(500, ...)    *)
HandlerExcept(op, exc) ==
    IF exc.cls = "HTTPException" THEN exc
    ELSE HTTPException(500,
             CASE op = "update_travel" -> "Failed to update travel"
               [] op = "create_travel" -> "Failed to create travel"
               [] op = "create_event_type" -> "Failed to create event type"
               [] op = "restore_event_type" -> "Failed to restore event type")

(* The except clauses of the handler, and http_exception_handler rendering *)
(* the HTTPException that leaves it.                                       *)
handler_except(p) ==
    /\ calls[p].pc = "caught"
    /\ LET exc == HandlerExcept(calls[p].op, calls[p].raised)
       IN  calls' = [calls EXCEPT ![p].status = exc.status_code,
                                  ![p].message = exc.detail,
                                  ![p].error = ErrorBody(HandlerFor(exc.cls), exc.status_code),
                                  ![p].pc = "done"]
    /\ UNCHANGED <<travels, event_types, events, now, resp, scan, before, connection>>

(* The checks update_travel makes on the request and on the row it read:   *)
(* 0 when the update may proceed, else the status raised.                  *)
UpdateTravelRefusal(row, title, description, start_date, end_date, destination) ==
    IF title # NULL /\ Strip(sanitize_input(title)) = <<>> THEN 400
    ELSE IF start_date = BAD_DATE \/ end_date = BAD_DATE THEN 400
    ELSE IF /\ title = NULL /\ description = NULL /\ start_date = NO_DATE
            /\ end_date = NO_DATE /\ destination = NULL
    THEN 400
    ELSE IF start_date # NO_DATE /\ end_date # NO_DATE /\ start_date >= end_date THEN 400
    ELSE IF start_date # NO_DATE /\ end_date = NO_DATE /\ start_date >= row.end_date THEN 400
    ELSE IF start_date = NO_DATE /\ end_date # NO_DATE /\ row.start_date >= end_date THEN 400
    ELSE 0

(* update_travel up to and including its SELECT of the row, and the checks *)
(* made on what it read.                                                   *)
update_travel_lookup(p) ==
    /\ calls[p].op = "update_travel" /\ calls[p].pc = "start"
    /\ LET c == calls[p]
           refusal == IF c.id \notin TravelIds THEN 404
                      ELSE IF travels[c.id].is_deleted = 1 THEN 410
                      ELSE UpdateTravelRefusal(travels[c.id], c.title, NULL,
                                               c.start_date, c.end_date, NULL)
       IN  IF c.id <= 0
           THEN calls' = [calls EXCEPT ![p] = Raise(c, HTTPException(400, DomainDetail))]
                /\ UNCHANGED connection
           ELSE IF fetch_one(p) # NoException
           THEN calls' = [calls EXCEPT ![p] = Raise(c, fetch_one(p))]
                /\ connection' = ConnectionAfter(p)
           ELSE /\ calls' = [calls EXCEPT ![p] =
                       IF refusal # 0
                       THEN Raise([c EXCEPT !.seen = IF c.id \in TravelIds THEN <<travels[c.id]>> ELSE <<>>,
                                            !.read_at = now],
                                  HTTPException(refusal, DomainDetail))
                       ELSE [c EXCEPT !.seen = <<travels[c.id]>>, !.read_at = now, !.pc = "write"]]
                /\ connection' = "open"
    /\ UNCHANGED <<travels, event_types, events, now, resp, scan, before>>

(* An UPDATE that is refused with 409 when the row changed since it was    *)
(* read.                                                                   *)
update_travel_write_Versioned(p) ==
    /\ calls[p].op = "update_travel" /\ calls[p].pc = "write"
    /\ LET c == calls[p]
           out == execute_query(p)
       IN  IF travels[c.id].updated_at # c.seen[1].updated_at
           THEN /\ calls' = [calls EXCEPT ![p] = Raise(c, HTTPException(409, DomainDetail))]
                /\ UNCHANGED <<travels, now>>
           ELSE IF out.committed
           THEN /\ travels' = [travels EXCEPT ![c.id] =
                       UpdatedTravel(@, c.title, NULL, c.start_date, c.end_date, NULL)]
                /\ now' = now + 1
                /\ calls' = [calls EXCEPT ![p] = [c EXCEPT !.write = out, !.wrote_at = now, !.pc = "fetch"]]
           ELSE /\ calls' = [calls EXCEPT ![p] = Raise([c EXCEPT !.write = out], out.raised)]
                /\ UNCHANGED <<travels, now>>
    /\ connection' = ConnectionAfter(p)
    /\ UNCHANGED <<event_types, events, resp, scan, before>>

(* The UPDATE ... WHERE id = ? of update_travel, through execute_query.    *)
update_travel_write(p) ==
    /\ calls[p].op = "update_travel" /\ calls[p].pc = "write"
    /\ LET c == calls[p]
           out == execute_query(p)
       IN  IF out.committed
           THEN /\ travels' = [travels EXCEPT ![c.id] =
                       UpdatedTravel(@, c.title, NULL, c.start_date, c.end_date, NULL)]
                /\ now' = now + 1
                /\ calls' = [calls EXCEPT ![p] = [c EXCEPT !.write = out, !.wrote_at = now, !.pc = "fetch"]]
           ELSE /\ calls' = [calls EXCEPT ![p] = Raise([c EXCEPT !.write = out], out.raised)]
                /\ UNCHANGED <<travels, now>>
    /\ connection' = ConnectionAfter(p)
    /\ UNCHANGED <<event_types, events, resp, scan, before>>

(* The SELECT of the updated row, and the response.                        *)
update_travel_fetch(p) ==
    /\ calls[p].op = "update_travel" /\ calls[p].pc = "fetch"
    /\ calls' = [calls EXCEPT ![p] =
           IF fetch_one(p) # NoException THEN Raise(@, fetch_one(p))
           ELSE [@ EXCEPT !.returned = <<travels[calls[p].id]>>, !.status = 200, !.pc = "done"]]
    /\ UNCHANGED <<travels, event_types, events, now, resp, scan, before, connection>>

(* create_travel up to and including its INSERT, through execute_insert;   *)
(* the handler reads nothing before it.                                    *)
create_travel_insert(p) ==
    /\ calls[p].op = "create_travel" /\ calls[p].pc = "start"
    /\ LET c == calls[p]
           out == execute_insert(p)
           refused == \/ ~ValidDate(c.start_date) \/ ~ValidDate(c.end_date)
                      \/ c.start_date >= c.end_date
                      \/ c.start_date < Today
                      \/ Strip(sanitize_input(c.title)) = <<>>
       IN  IF refused
           THEN /\ calls' = [calls EXCEPT ![p] = Raise(c, HTTPException(400, DomainDetail))]
                /\ UNCHANGED <<travels, now, before, connection>>
           ELSE IF out.committed
           THEN /\ travels' = Append(travels,
                       [title |-> sanitize_input(c.title),
                        description |-> NULL,
                        start_date |-> c.start_date,
                        end_date |-> c.end_date,
                        destination |-> NULL,
                        is_deleted |-> 0,
                        deleted_at |-> NULL_TS,
                        created_at |-> now,
                        updated_at |-> now])
                /\ now' = now + 1
                /\ calls' = [calls EXCEPT ![p] =
                       [c EXCEPT !.write = out, !.wrote_at = now,
                                 !.created = Len(travels) + 1, !.pc = "fetch"]]
                /\ before' = [before EXCEPT !.travels = Append(@, travels'[Len(travels) + 1])]
                /\ connection' = "open"
           ELSE /\ calls' = [calls EXCEPT ![p] = Raise([c EXCEPT !.write = out], out.raised)]
                /\ connection' = ConnectionAfter(p)
                /\ UNCHANGED <<travels, now, before>>
    /\ UNCHANGED <<event_types, events, resp, scan>>

(* The SELECT of the created travel, and the response.                     *)
create_travel_fetch(p) ==
    /\ calls[p].op = "create_travel" /\ calls[p].pc = "fetch"
    /\ calls' = [calls EXCEPT ![p] =
           IF fetch_one(p) # NoException THEN Raise(@, fetch_one(p))
           ELSE [@ EXCEPT !.returned = <<travels[calls[p].created]>>, !.status = 201, !.pc = "done"]]
    /\ UNCHANGED <<travels, event_types, events, now, resp, scan, before, connection>>

(* create_event_type up to and including its duplicate SELECT.             *)
create_event_type_check(p) ==
    /\ calls[p].op = "create_event_type" /\ calls[p].pc = "start"
    /\ LET c == calls[p]
           invalid == \/ ~validate_hex_color(c.color)
                      \/ ~validate_category(c.category)
                      \/ Strip(sanitize_input(c.name)) = <<>>
                      \/ Strip(sanitize_input(c.category)) = <<>>
           duplicate == DuplicateEventTypes(sanitize_input(c.name),
                                            sanitize_input(c.category), NO_ID) # {}
       IN  IF invalid
           THEN calls' = [calls EXCEPT ![p] = Raise(c, HTTPException(400, DomainDetail))]
                /\ UNCHANGED connection
           ELSE IF fetch_one(p) # NoException
           THEN calls' = [calls EXCEPT ![p] = Raise(c, fetch_one(p))]
                /\ connection' = ConnectionAfter(p)
           ELSE /\ calls' = [calls EXCEPT ![p] =
                       IF duplicate
                       THEN Raise([c EXCEPT !.read_at = now], HTTPException(409, DomainDetail))
                       ELSE [c EXCEPT !.read_at = now, !.pc = "write"]]
                /\ connection' = "open"
    /\ UNCHANGED <<travels, event_types, events, now, resp, scan, before>>

(* The INSERT of create_event_type, through execute_insert.                *)
create_event_type_insert(p) ==
    /\ calls[p].op = "create_event_type" /\ calls[p].pc = "write"
    /\ LET c == calls[p]
           out == execute_insert(p)
       IN  IF out.committed
           THEN /\ event_types' = Append(event_types,
                       [name |-> sanitize_input(c.name),
                        category |-> Lower(sanitize_input(c.category)),
                        color |-> c.color,
                        icon |-> NULL,
                        is_deleted |-> 0,
                        deleted_at |-> NULL_TS,
                        created_at |-> now,
                        updated_at |-> now])
                /\ now' = now + 1
                /\ calls' = [calls EXCEPT ![p] =
                       [c EXCEPT !.write = out, !.wrote_at = now,
                                 !.created = Len(event_types) + 1, !.pc = "fetch"]]
                /\ before' = [before EXCEPT !.event_types =
                                  Append(@, event_types'[Len(event_types) + 1])]
           ELSE /\ calls' = [calls EXCEPT ![p] = Raise([c EXCEPT !.write = out], out.raised)]
                /\ UNCHANGED <<event_types, now, before>>
    /\ connection' = ConnectionAfter(p)
    /\ UNCHANGED <<travels, events, resp, scan>>

(* The SELECT of the created row, and the response.                        *)
create_event_type_fetch(p) ==
    /\ calls[p].op = "create_event_type" /\ calls[p].pc = "fetch"
    /\ calls' = [calls EXCEPT ![p] =
           IF fetch_one(p) # NoException THEN Raise(@, fetch_one(p))
           ELSE [@ EXCEPT !.returned = <<event_types[calls[p].created]>>,
                          !.status = 201, !.pc = "done"]]
    /\ UNCHANGED <<travels, event_types, events, now, resp, scan, before, connection>>

(* restore_event_type up to and including its SELECT of the row.           *)
restore_event_type_lookup(p) ==
    /\ calls[p].op = "restore_event_type" /\ calls[p].pc = "start"
    /\ LET c == calls[p]
           refusal == IF c.id \notin EventTypeIds THEN 404
                      ELSE IF event_types[c.id].is_deleted = 0 THEN 409
                      ELSE 0
       IN  IF c.id <= 0
           THEN calls' = [calls EXCEPT ![p] = Raise(c, HTTPException(400, DomainDetail))]
                /\ UNCHANGED connection
           ELSE IF fetch_one(p) # NoException
           THEN calls' = [calls EXCEPT ![p] = Raise(c, fetch_one(p))]
                /\ connection' = ConnectionAfter(p)
           ELSE /\ calls' = [calls EXCEPT ![p] =
                       IF refusal # 0
                       THEN Raise([c EXCEPT !.seen = IF c.id \in EventTypeIds
                                                     THEN <<event_types[c.id]>> ELSE <<>>,
                                            !.read_at = now],
                                  HTTPException(refusal, DomainDetail))
                       ELSE [c EXCEPT !.seen = <<event_types[c.id]>>, !.read_at = now,
                                      !.pc = "write"]]
                /\ connection' = "open"
    /\ UNCHANGED <<travels, event_types, events, now, resp, scan, before>>

(* The UPDATE ... WHERE id = ? of restore_event_type, through              *)
(* execute_query.                                                          *)
restore_event_type_write(p) ==
    /\ calls[p].op = "restore_event_type" /\ calls[p].pc = "write"
    /\ LET c == calls[p]
           out == execute_query(p)
       IN  IF out.committed
           THEN /\ event_types' = [event_types EXCEPT ![c.id] = Restored(@)]
                /\ now' = now + 1
                /\ calls' = [calls EXCEPT ![p] = [c EXCEPT !.write = out, !.wrote_at = now, !.pc = "fetch"]]
           ELSE /\ calls' = [calls EXCEPT ![p] = Raise([c EXCEPT !.write = out], out.raised)]
                /\ UNCHANGED <<event_types, now>>
    /\ connection' = ConnectionAfter(p)
    /\ UNCHANGED <<travels, events, resp, scan, before>>

(* The SELECT of the restored row, and the response.                       *)
restore_event_type_fetch(p) ==
    /\ calls[p].op = "restore_event_type" /\ calls[p].pc = "fetch"
    /\ calls' = [calls EXCEPT ![p] =
           IF fetch_one(p) # NoException THEN Raise(@, fetch_one(p))
           ELSE [@ EXCEPT !.returned = <<event_types[calls[p].id]>>,
                          !.status = 200, !.pc = "done"]]
    /\ UNCHANGED <<travels, event_types, events, now, resp, scan, before, connection>>

(* One travel, and one event type that was created and then soft-deleted.  *)
StoredBefore ==
    /\ travels = <<[title |-> sanitize_input(T_A), description |-> NULL,
                    start_date |-> 0, end_date |-> 2, destination |-> NULL,
                    is_deleted |-> 0, deleted_at |-> NULL_TS,
                    created_at |-> 0, updated_at |-> 0]>>
    /\ event_types = <<[name |-> sanitize_input(N_Flight),
                        category |-> Lower(sanitize_input(C_food)),
                        color |-> Col_ok, icon |-> NULL,
                        is_deleted |-> 1, deleted_at |-> 2,
                        created_at |-> 1, updated_at |-> 2]>>
    /\ events = <<>>
    /\ now = 3
    /\ resp = NoResponse
    /\ scan = NoScan
    /\ before = [travels |-> travels,
                 event_types |-> <<[event_types[1] EXCEPT !.is_deleted = 0,
                                        !.deleted_at = NULL_TS, !.updated_at = 1]>>,
                 events |-> <<>>]

(* The requests have all been received and none has started; the storage   *)
(* does not fail.                                                          *)
InitConcurrent ==
    /\ StoredBefore
    /\ connection = "open"
    /\ calls \in [1..MaxCalls -> ConcurrentRequests]

NextConcurrent ==
    \/ \E p \in CallIds : update_travel_lookup(p)
    \/ \E p \in CallIds : update_travel_write(p)
    \/ \E p \in CallIds : update_travel_fetch(p)
    \/ \E p \in CallIds : create_travel_insert(p)
    \/ \E p \in CallIds : create_travel_fetch(p)
    \/ \E p \in CallIds : create_event_type_check(p)
    \/ \E p \in CallIds : create_event_type_insert(p)
    \/ \E p \in CallIds : create_event_type_fetch(p)
    \/ \E p \in CallIds : restore_event_type_lookup(p)
    \/ \E p \in CallIds : restore_event_type_write(p)
    \/ \E p \in CallIds : restore_event_type_fetch(p)
    \/ \E p \in CallIds : handler_except(p)

SpecConcurrent == InitConcurrent /\ [][NextConcurrent]_vars

(* The same requests, each with a point at which the storage fails for it; *)
(* the server may have started without a connection, init_db not looking   *)
(* at the result of its connection check.                                  *)
InitFaults ==
    /\ StoredBefore
    /\ connection \in {"none", "open"}
    /\ calls \in [1..MaxCalls ->
                     {[c EXCEPT !.fault = f] : c \in ConcurrentRequests, f \in Faults}]

SpecFaults == InitFaults /\ [][NextConcurrent]_vars

(***************************************************************************)
(* Properties.  The response held in resp was computed from the store as   *)
(* it stands: a read leaves the store alone and a write replaces resp.     *)
(***************************************************************************)
Elems(sq) == {sq[i] : i \in 1..Len(sq)}

(* The scan has fetched every page the first response announced.           *)
ScanComplete(op) ==
    scan.active /\ scan.op = op /\ scan.req = NoFilter /\ scan.fetched >= scan.pages

(* C1: for travels, event types and events alike, a soft-deleted row is in *)
(* no page of the default list, is in the pages of the deleted list once   *)
(* all of them are fetched, and a get of it answers 410.                   *)
C1_SoftDeletedVisibility ==
    /\ (resp.op = "list_travels" /\ resp.status = 200) =>
           \A t \in Elems(resp.data) : travels[t].is_deleted = 0
    /\ (resp.op = "list_event_types" /\ resp.status = 200) =>
           \A t \in Elems(resp.data) : event_types[t].is_deleted = 0
    /\ (resp.op = "list_travel_events" /\ resp.status = 200) =>
           \A e \in Elems(resp.data) : events[e].is_deleted = 0
    /\ ScanComplete("list_deleted_travels") =>
           \A t \in TravelIds : travels[t].is_deleted = 1 => t \in Elems(scan.got)
    /\ ScanComplete("list_deleted_event_types") =>
           \A t \in EventTypeIds : event_types[t].is_deleted = 1 => t \in Elems(scan.got)
    /\ ScanComplete("list_travel_deleted_events") =>
           \A e \in EventIds :
               (events[e].is_deleted = 1 /\ events[e].travel_id = scan.id)
                   => e \in Elems(scan.got)
    /\ (resp.op = "get_travel" /\ resp.id \in TravelIds /\ travels[resp.id].is_deleted = 1)
           => resp.status = 410
    /\ (resp.op = "get_event_type" /\ resp.id \in EventTypeIds
            /\ event_types[resp.id].is_deleted = 1) => resp.status = 410
    /\ (resp.op = "get_event" /\ resp.id \in EventIds /\ events[resp.id].is_deleted = 1)
           => resp.status = 410

(* Two soft-deleted travels fetched from the deleted list one per page.    *)
C1_Witness ==
    /\ ScanComplete("list_deleted_travels")
    /\ scan.limit = 1 /\ scan.fetched = 2
    /\ Elems(scan.got) = {1, 2}
    /\ \A t \in TravelIds : travels[t].is_deleted = 1

(* The row a successful restore has just answered about, and that row as   *)
(* it stood before the soft delete the restore undoes.                     *)
RestoredRow ==
    CASE resp.op = "restore_travel" -> travels[resp.id]
      [] resp.op = "restore_event_type" -> event_types[resp.id]
      [] resp.op = "restore_event" -> events[resp.id]

RowBeforeDelete ==
    CASE resp.op = "restore_travel" -> before.travels[resp.id]
      [] resp.op = "restore_event_type" -> before.event_types[resp.id]
      [] resp.op = "restore_event" -> before.events[resp.id]

JustRestored ==
    resp.op \in {"restore_travel", "restore_event_type", "restore_event"} /\ resp.status = 200

(* C2 (as amended): after a soft delete followed by a restore the row has  *)
(* is_deleted = 0 and deleted_at = NULL, updated_at is the time of the     *)
(* restore, and every other field has the value it had before the soft     *)
(* delete.                                                                 *)
C2_RestoreRoundTrip ==
    JustRestored =>
        /\ RestoredRow.is_deleted = 0
        /\ RestoredRow.deleted_at = NULL_TS
        /\ RestoredRow.updated_at = now - 1
        /\ RestoredRow = [RowBeforeDelete EXCEPT !.updated_at = now - 1]

(* C2 as stated: every field other than is_deleted and deleted_at,         *)
(* updated_at included, has the value it had before the soft delete.       *)
C2_AsStated ==
    JustRestored =>
        /\ RestoredRow.is_deleted = 0
        /\ RestoredRow.deleted_at = NULL_TS
        /\ RestoredRow = RowBeforeDelete

(* An event restored after its soft delete.                                *)
C2_Witness ==
    /\ JustRestored /\ resp.op = "restore_event"
    /\ events[resp.id].is_deleted = 0
    /\ before.events[resp.id].updated_at < events[resp.id].updated_at

(* Two different non-deleted event types with the same name and category,  *)
(* compared case-insensitively.                                            *)
SameNameAndCategory(a, b) ==
    /\ a # b
    /\ event_types[a].is_deleted = 0 /\ event_types[b].is_deleted = 0
    /\ Lower(event_types[a].name) = Lower(event_types[b].name)
    /\ Lower(event_types[a].category) = Lower(event_types[b].category)

(* C3: after any create, update, soft delete or restore, no two            *)
(* non-deleted event types share the pair (lower(name), lower(category)).  *)
C3_UniqueActiveEventTypes ==
    \A a, b \in EventTypeIds : ~SameNameAndCategory(a, b)

(* The non-deleted events that reference an event type.                    *)
ActiveReferences(event_type_id) ==
    {e \in EventIds : events[e].event_type_id = event_type_id /\ events[e].is_deleted = 0}

(* A step that answers a soft delete of a stored event type.               *)
DeleteEventTypeStep ==
    resp'.op = "delete_event_type" /\ resp'.id \in EventTypeIds

StoreUnchanged == UNCHANGED <<travels, event_types, events>>

C4_WitnessRefused ==
    /\ resp.op = "delete_event_type" /\ resp.status = 409 /\ resp.detail_count = 1

(* C5: every non-deleted event's travel_id is the id of a stored travel    *)
(* that is not deleted.                                                    *)
C5_ActiveEventsHaveActiveTravel ==
    \A e \in EventIds :
        events[e].is_deleted = 0 =>
            /\ events[e].travel_id \in TravelIds
            /\ travels[events[e].travel_id].is_deleted = 0

(* A step that answers a create-event request for a positive travel id.    *)
CreateEventStep == resp'.op = "create_travel_event" /\ resp'.id > 0

(* The event type of id ty is stored and not deleted.                      *)
EventTypeIsActive(ty) == ty \in EventTypeIds /\ event_types[ty].is_deleted = 0

(* C6: creating an event under a positive travel id answers 404 when no    *)
(* travel has the id and 410 when the travel is soft-deleted; under an     *)
(* active travel it answers 400 unless the requested event type is stored  *)
(* and not deleted (a created row carries the requested event type); and   *)
(* whenever it fails the events table is unchanged.                        *)
C6_CreateEventGuards ==
    [][CreateEventStep =>
          /\ resp'.id \notin TravelIds => (resp'.status = 404 /\ events' = events)
          /\ (resp'.id \in TravelIds /\ travels[resp'.id].is_deleted = 1)
                 => (resp'.status = 410 /\ events' = events)
          /\ (resp'.id \in TravelIds /\ travels[resp'.id].is_deleted = 0)
                 => \/ resp'.status = 400 /\ events' = events
                    \/ /\ resp'.status = 201
                       /\ Len(events') = Len(events) + 1
                       /\ SubSeq(events', 1, Len(events)) = events
                       /\ events'[Len(events')].travel_id = resp'.id
                       /\ EventTypeIsActive(events'[Len(events')].event_type_id)
          /\ (resp'.id \in TravelIds /\ travels[resp'.id].is_deleted = 0
                  /\ \A ty \in PathIds(Len(event_types)) : ~EventTypeIsActive(ty))
                 => resp'.status = 400]_vars

(* A create-event request refused with 400 under an active travel when the *)
(* only event type is soft-deleted.                                        *)
C6_Witness ==
    /\ resp.op = "create_travel_event" /\ resp.status = 400
    /\ resp.id \in TravelIds /\ travels[resp.id].is_deleted = 0
    /\ event_types # <<>>
    /\ \A ty \in EventTypeIds : event_types[ty].is_deleted = 1
    /\ events = <<>>

(* A create-event request refused with 410 under a soft-deleted travel.    *)
C6_WitnessGone ==
    /\ resp.op = "create_travel_event" /\ resp.status = 410
    /\ travels[resp.id].is_deleted = 1

(* The non-deleted events of a travel.                                     *)
ActiveEventsOf(travel_id) ==
    {e \in EventIds : events[e].travel_id = travel_id /\ events[e].is_deleted = 0}

(* The same two sets of events after the step.                             *)
ActiveEventsOfAfter(travel_id) ==
    {e \in 1..Len(events') :
        events'[e].travel_id = travel_id /\ events'[e].is_deleted = 0}

ActiveReferencesAfter(event_type_id) ==
    {e \in 1..Len(events') :
        events'[e].event_type_id = event_type_id /\ events'[e].is_deleted = 0}

(* The two counts of an event's travel and event type move by d over the   *)
(* step.                                                                   *)
CountsMoveBy(ev, d) ==
    /\ Cardinality(ActiveEventsOfAfter(ev.travel_id))
           = Cardinality(ActiveEventsOf(ev.travel_id)) + d
    /\ Cardinality(ActiveReferencesAfter(ev.event_type_id))
           = Cardinality(ActiveReferences(ev.event_type_id)) + d

(* C7: a get of an active travel reports as events_count the number of     *)
(* non-deleted events of that travel, a get of an active event type        *)
(* reports as usage_count the number of non-deleted events of that type,   *)
(* and these counts rise by one when an event is created or restored and   *)
(* fall by one when an event is soft-deleted.                              *)
C7_Counts ==
    [][/\ (resp'.op = "get_travel" /\ resp'.status = 200) =>
              resp'.count = Cardinality(ActiveEventsOf(resp'.id))
       /\ (resp'.op = "get_event_type" /\ resp'.status = 200) =>
              resp'.count = Cardinality(ActiveReferences(resp'.id))
       /\ (resp'.op = "create_travel_event" /\ resp'.status = 201) =>
              CountsMoveBy(events'[resp'.created], 1)
       /\ (resp'.op = "restore_event" /\ resp'.status = 200) =>
              CountsMoveBy(events[resp'.id], 1)
       /\ (resp'.op = "delete_event" /\ resp'.status = 200) =>
              CountsMoveBy(events[resp'.id], -1)]_vars

(* A get of a travel that has one non-deleted and one soft-deleted event.  *)
C7_Witness ==
    /\ resp.op = "get_travel" /\ resp.status = 200 /\ resp.count = 1
    /\ \E e \in EventIds : events[e].travel_id = resp.id /\ events[e].is_deleted = 1

(* A scan that has fetched the ceil(total / limit) pages of its list.      *)
AllPagesFetched == scan.active /\ scan.fetched >= scan.pages

NoDuplicates(sq) == \A i, j \in 1..Len(sq) : sq[i] = sq[j] => i = j

(* C8: with no write between the requests, the pages at offsets 0, limit,  *)
(* 2 * limit, ... of one list under one filter hold total rows in all and  *)
(* no row id twice, also when rows have equal sort keys.                   *)
C8_PagesCoverOnce ==
    AllPagesFetched => (Len(scan.got) = scan.total /\ NoDuplicates(scan.got))

ListOps ==
    {"list_travels", "list_deleted_travels", "list_event_types", "list_deleted_event_types",
     "list_travel_events", "list_travel_deleted_events"}

(* The rows the list answered in resp selects from: its visibility         *)
(* condition and the filter of the request.                                *)
Matching ==
    CASE resp.op = "list_travels" -> TravelsWhere(resp.req)
      [] resp.op = "list_deleted_travels" -> DeletedTravelsWhere(resp.req)
      [] resp.op = "list_event_types" -> EventTypesWhere(resp.req)
      [] resp.op = "list_deleted_event_types" -> DeletedEventTypesWhere
      [] resp.op = "list_travel_events" -> EventsWhere(resp.id, resp.req)
      [] resp.op = "list_travel_deleted_events" -> DeletedEventsWhere(resp.id)

(* n = ceil(total / limit): the least n with n * limit >= total.           *)
IsCeilDiv(n, total, limit) ==
    n >= 0 /\ n * limit >= total /\ (n > 0 => (n - 1) * limit < total)

(* C9: every list response has page = offset // limit + 1,                 *)
(* pages = ceil(total / limit), and total equal to the number of rows      *)
(* under the visibility and filter condition its page was selected with.   *)
C9_PaginationMetadata ==
    (resp.op \in ListOps /\ resp.status = 200) =>
        /\ resp.page = (resp.offset \div resp.limit) + 1
        /\ IsCeilDiv(resp.pages, resp.total, resp.limit)
        /\ resp.total = Cardinality(Matching)
        /\ Elems(resp.data) \subseteq Matching

(* A filtered list of one row asked with limit 2 at offset 1.              *)
C9_Witness ==
    /\ resp.op \in ListOps /\ resp.status = 200
    /\ resp.req # NoFilter
    /\ resp.limit = 2 /\ resp.offset = 1 /\ resp.total = 1 /\ resp.pages = 1

(* A step that answers a create-event-type request; its name, category and *)
(* colour are resp'.sent.                                                  *)
CreateEventTypeStep == resp'.op = "create_event_type"

(* A non-deleted event type has the name and the category, letter case     *)
(* aside.                                                                  *)
ActiveEventTypeNamed(name, category) ==
    \E t \in EventTypeIds :
        /\ event_types[t].is_deleted = 0
        /\ Lower(event_types[t].name) = Lower(name)
        /\ Lower(event_types[t].category) = Lower(category)

IsHexColor(color) ==
    /\ Len(color) = 7 /\ color[1] = "#"
    /\ \A i \in 2..7 :
           color[i] \in {"0", "1", "2", "3", "4", "5", "6", "7", "8", "9",
                         "a", "b", "c", "d", "e", "f", "A", "B", "C", "D", "E", "F"}

TableOfStep ==
    CASE resp'.op \in {"delete_travel", "restore_travel"} -> travels
      [] resp'.op \in {"delete_event_type", "restore_event_type"} -> event_types
      [] resp'.op \in {"delete_event", "restore_event"} -> events

SoftDeleteStep ==
    resp'.op \in {"delete_travel", "delete_event_type", "delete_event"} /\ resp'.id > 0

RestoreStep ==
    resp'.op \in {"restore_travel", "restore_event_type", "restore_event"} /\ resp'.id > 0

(* C11: for travels, event types and events, a soft delete under a         *)
(* positive id answers 404 when no row has the id and 409 when the row is  *)
(* already soft-deleted, and in both cases no row of any table changes.    *)
C11_SoftDeleteRefusals ==
    [][SoftDeleteStep =>
          /\ resp'.id > Len(TableOfStep) => (resp'.status = 404 /\ StoreUnchanged)
          /\ (resp'.id <= Len(TableOfStep) /\ TableOfStep[resp'.id].is_deleted = 1)
                 => (resp'.status = 409 /\ StoreUnchanged)]_vars

(* A second soft delete of an event refused, its deleted_at still the time *)
(* of the first.                                                           *)
C11_Witness ==
    /\ resp.op = "delete_event" /\ resp.status = 409
    /\ events[resp.id].is_deleted = 1
    /\ events[resp.id].deleted_at = now - 1

(* C12: for travels, event types and events, a restore under a positive id *)
(* answers 404 when no row has the id and 409 when the row is not          *)
(* soft-deleted, and in both cases no row of any table changes.            *)
C12_RestoreRefusals ==
    [][RestoreStep =>
          /\ resp'.id > Len(TableOfStep) => (resp'.status = 404 /\ StoreUnchanged)
          /\ (resp'.id <= Len(TableOfStep) /\ TableOfStep[resp'.id].is_deleted = 0)
                 => (resp'.status = 409 /\ StoreUnchanged)]_vars

(* A restore of an event that was never soft-deleted, refused.             *)
C12_Witness ==
    /\ resp.op = "restore_event" /\ resp.status = 409
    /\ events[resp.id].is_deleted = 0
    /\ events[resp.id].updated_at = events[resp.id].created_at

FlagMatchesTimestamp(row) ==
    /\ row.is_deleted \in {0, 1}
    /\ row.is_deleted = 0 <=> row.deleted_at = NULL_TS

(* C13: in every reachable state, every travel, event type and event has   *)
(* deleted_at null when is_deleted is 0 and non-null when is_deleted is 1. *)
C13_FlagMatchesTimestamp ==
    /\ \A i \in TravelIds : FlagMatchesTimestamp(travels[i])
    /\ \A i \in EventTypeIds : FlagMatchesTimestamp(event_types[i])
    /\ \A i \in EventIds : FlagMatchesTimestamp(events[i])

(* One travel soft-deleted, another soft-deleted and restored since.       *)
C13_Witness ==
    /\ \E i \in TravelIds : travels[i].is_deleted = 1 /\ travels[i].deleted_at # NULL_TS
    /\ \E i \in TravelIds : /\ travels[i].is_deleted = 0
                            /\ travels[i].deleted_at = NULL_TS
                            /\ before.travels[i].updated_at < travels[i].updated_at
                            /\ resp.op = "restore_travel" /\ resp.id = i

CreateTravelStep == resp'.op = "create_travel"

(* The request of a create travel step has a title that is not blank after *)
(* sanitization and two well-formed dates, the start before the end.       *)
WellFormedTravel ==
    /\ Strip(sanitize_input(resp'.sent[1])) # <<>>
    /\ ValidDate(resp'.sent[2]) /\ ValidDate(resp'.sent[3])
    /\ resp'.sent[2] < resp'.sent[3]

TravelInserted ==
    /\ resp'.status = 201
    /\ Len(travels') = Len(travels) + 1
    /\ resp'.created = Len(travels')
    /\ \A i \in TravelIds : travels'[i] = travels[i]
    /\ travels'[resp'.created].is_deleted = 0
    /\ travels'[resp'.created].start_date = resp'.sent[2]
    /\ travels'[resp'.created].end_date = resp'.sent[3]

(* C14, amended: a create travel whose title is not blank after            *)
(* sanitization, whose dates are well formed with start before end, and    *)
(* whose start_date is today or later answers 201 and inserts a row under  *)
(* a new id with is_deleted = 0; with a start_date before today it answers *)
(* 400 and inserts nothing.                                                *)
C14_CreateTravel ==
    [][(CreateTravelStep /\ WellFormedTravel) =>
          IF resp'.sent[2] >= Today
          THEN TravelInserted
          ELSE resp'.status = 400 /\ StoreUnchanged]_vars

(* C14 as stated: such a create succeeds whatever the current date.        *)
C14_AsStated ==
    [][(CreateTravelStep /\ WellFormedTravel) => TravelInserted]_vars

(* A travel created with a start_date of today.                            *)
C14_Witness ==
    /\ resp.op = "create_travel" /\ resp.status = 201
    /\ resp.sent[2] = Today
    /\ travels[resp.created].start_date = resp.sent[2]
    /\ travels[resp.created].created_at = now - 1

(* A well-formed create refused because its start_date is before today.    *)
C14_WitnessPast ==
    /\ resp.op = "create_travel" /\ resp.status = 400
    /\ Strip(sanitize_input(resp.sent[1])) # <<>>
    /\ ValidDate(resp.sent[2]) /\ resp.sent[2] < resp.sent[3]
    /\ resp.sent[2] < Today

(* The rows of a table before a step are still there after it, each under  *)
(* the id it had and with the creation time it had.                        *)
RowsKept(tbl, tblAfter) ==
    /\ Len(tblAfter) >= Len(tbl)
    /\ \A i \in 1..Len(tbl) : tblAfter[i].created_at = tbl[i].created_at

(* C15: no step removes a row: the ids of each table only grow, and an id  *)
(* keeps denoting the row it was given to (an event also keeps its         *)
(* travel).                                                                *)
C15_NoRowRemoved ==
    [][/\ RowsKept(travels, travels')
       /\ RowsKept(event_types, event_types')
       /\ RowsKept(events, events')
       /\ \A i \in EventIds : events'[i].travel_id = events[i].travel_id]_vars

(* An event soft-deleted with 200 and still stored under its id, with the  *)
(* creation time and the travel it was created with.                       *)
C15_Witness ==
    /\ resp.op = "delete_event" /\ resp.status = 200
    /\ resp.id \in EventIds
    /\ events[resp.id].is_deleted = 1
    /\ events[resp.id].created_at = before.events[resp.id].created_at
    /\ events[resp.id].travel_id = before.events[resp.id].travel_id


(* The latest request was addressed to a stored travel that is             *)
(* soft-deleted.                                                           *)
AskedOfDeletedTravel(op) ==
    /\ resp.op = op
    /\ resp.id \in TravelIds
    /\ travels[resp.id].is_deleted = 1

(* C16, amended: for a soft-deleted travel the deleted-events list still   *)
(* answers 200, while the active-events list and get travel by id both     *)
(* answer 410.                                                             *)
C16_DeletedTravelRoutes ==
    /\ AskedOfDeletedTravel("list_travel_deleted_events") => resp.status = 200
    /\ AskedOfDeletedTravel("list_travel_events") => resp.status = 410
    /\ AskedOfDeletedTravel("get_travel") => resp.status = 410

(* C16 as stated: both lists answer 200 and get travel by id answers 410.  *)
C16_AsStated ==
    /\ AskedOfDeletedTravel("list_travel_deleted_events") => resp.status = 200
    /\ AskedOfDeletedTravel("list_travel_events") => resp.status = 200
    /\ AskedOfDeletedTravel("get_travel") => resp.status = 410

(* The deleted events of a soft-deleted travel listed, one event on the    *)
(* page.                                                                   *)
C16_Witness ==
    /\ AskedOfDeletedTravel("list_travel_deleted_events")
    /\ resp.status = 200
    /\ resp.total >= 1

(* The active events of a soft-deleted travel that has one refused.        *)
C16_WitnessGone ==
    /\ AskedOfDeletedTravel("list_travel_events")
    /\ resp.status = 410
    /\ \E e \in EventIds : events[e].travel_id = resp.id /\ events[e].is_deleted = 0

(* C17: every HTTP error response with status s carries an "error" object  *)
(* with type "http_error", code "HTTP_<s>" and status_code s.              *)
C17_HttpErrorEnvelope ==
    resp.status >= 400 =>
        resp.error = [type |-> "http_error",
                      code |-> "HTTP_" \o ToString(resp.status),
                      status_code |-> resp.status]

UpdateEventStep == resp'.op = "update_event" /\ resp'.id \in EventIds

(* The travel of a stored event is absent or soft-deleted.                 *)
TravelGone(e) ==
    \/ events[e].travel_id \notin TravelIds
    \/ travels[events[e].travel_id].is_deleted = 1

(* C18: an update of an event whose travel is absent or soft-deleted       *)
(* answers 404 or 410 and leaves the event as it was.                      *)
C18_UpdateEventNeedsTravel ==
    [][(UpdateEventStep /\ TravelGone(resp'.id)) =>
          /\ resp'.status \in {404, 410}
          /\ events'[resp'.id] = events[resp'.id]]_vars

(* A create or an update of an event that provides an event_type_id.       *)
EventTypeProvided ==
    /\ resp'.op \in {"create_travel_event", "update_event"}
    /\ resp'.sent # <<>>
    /\ resp'.sent[1] # NO_TYPE

(* The request got as far as the lookup of its event type: the travel of a *)
(* create, or the event of an update, is stored and not deleted.           *)
ReachesTypeLookup ==
    IF resp'.op = "create_travel_event"
    THEN resp'.id \in TravelIds /\ travels[resp'.id].is_deleted = 0
    ELSE resp'.id \in EventIds /\ events[resp'.id].is_deleted = 0

(* The event a successful create or update wrote.                          *)
WrittenEvent == IF resp'.op = "create_travel_event" THEN resp'.created ELSE resp'.id

(* C19: a create or an update of an event that provides an event_type_id   *)
(* succeeds only if that event type is stored and not deleted at that      *)
(* moment, and then stores it; otherwise it answers 400 (once the travel   *)
(* or event addressed is found active) and no event changes.  No other     *)
(* step changes the event_type_id of an event.                             *)
C19_EventTypeWrites ==
    [][/\ EventTypeProvided =>
             /\ resp'.status \in {200, 201} =>
                    /\ EventTypeIsActive(resp'.sent[1])
                    /\ events'[WrittenEvent].event_type_id = resp'.sent[1]
             /\ ~EventTypeIsActive(resp'.sent[1]) =>
                    /\ events' = events
                    /\ ReachesTypeLookup => resp'.status = 400
       /\ \A e \in EventIds :
              events'[e].event_type_id # events[e].event_type_id =>
                  /\ resp'.op = "update_event" /\ resp'.id = e
                  /\ resp'.sent = <<events'[e].event_type_id>>]_vars

(* An update that provided an event type which is stored and not deleted,  *)
(* answered 200, the event carrying that type.                             *)
C19_Witness ==
    /\ resp.op = "update_event" /\ resp.status = 200
    /\ resp.sent # <<>>
    /\ resp.sent[1] \in EventTypeIds
    /\ event_types[resp.sent[1]].is_deleted = 0
    /\ events[resp.id].event_type_id = resp.sent[1]
    /\ events[resp.id].updated_at > events[resp.id].created_at

(* An update refused with 400 for naming a soft-deleted event type.        *)
C19_WitnessRefused ==
    /\ resp.op = "update_event" /\ resp.status = 400
    /\ resp.sent # <<>>
    /\ resp.sent[1] \in EventTypeIds
    /\ event_types[resp.sent[1]].is_deleted = 1
    /\ events[resp.id].event_type_id # resp.sent[1]

(* C20: in every reachable state every travel has start_date < end_date    *)
(* and every event has start_datetime < end_datetime, updates of a single  *)
(* bound included.                                                         *)
C20_StartBeforeEnd ==
    /\ \A t \in TravelIds : travels[t].start_date < travels[t].end_date
    /\ \A e \in EventIds : events[e].start_datetime < events[e].end_datetime

(* A travel whose end_date alone was updated, and accepted, since its      *)
(* creation.                                                               *)
C20_Witness ==
    /\ resp.op = "update_travel" /\ resp.status = 200
    /\ before.travels[resp.id].is_deleted = 0
    /\ travels[resp.id].end_date # before.travels[resp.id].end_date
    /\ travels[resp.id].start_date = before.travels[resp.id].start_date
    /\ travels[resp.id].start_date < travels[resp.id].end_date

(* An event whose end_datetime alone was updated, and accepted, since its  *)
(* creation.                                                               *)
C20_WitnessEvent ==
    /\ resp.op = "update_event" /\ resp.status = 200
    /\ before.events[resp.id].is_deleted = 0
    /\ events[resp.id].end_datetime # before.events[resp.id].end_datetime
    /\ events[resp.id].start_datetime < events[resp.id].end_datetime

UpdateOps == {"update_travel", "update_event_type", "update_event"}

(* The table an update answered in resp' works on, before and after the    *)
(* step.                                                                   *)
UpdatedTable ==
    CASE resp'.op = "update_travel" -> travels
      [] resp'.op = "update_event_type" -> event_types
      [] OTHER -> events

UpdatedTableAfter ==
    CASE resp'.op = "update_travel" -> travels'
      [] resp'.op = "update_event_type" -> event_types'
      [] OTHER -> events'

(* The tables an update answered in resp' does not work on stay as they    *)
(* are.                                                                    *)
OtherTablesUnchanged ==
    /\ resp'.op # "update_travel" => travels' = travels
    /\ resp'.op # "update_event_type" => event_types' = event_types
    /\ resp'.op # "update_event" => events' = events

(* C21: a successful update changes, on the row of its id, only columns    *)
(* the request named and updated_at: every other column, created_at,       *)
(* is_deleted and deleted_at among them, keeps its value, the row stays    *)
(* under its id, and no other row of any table changes.                    *)
C21_UpdateFrame ==
    [][(resp'.op \in UpdateOps /\ resp'.status = 200) =>
          /\ resp'.named # {}
          /\ Len(UpdatedTableAfter) = Len(UpdatedTable)
          /\ resp'.id \in 1..Len(UpdatedTable)
          /\ \A c \in (DOMAIN UpdatedTable[resp'.id]) \ (resp'.named \cup {"updated_at"}) :
                 UpdatedTableAfter[resp'.id][c] = UpdatedTable[resp'.id][c]
          /\ \A i \in 1..Len(UpdatedTable) :
                 i # resp'.id => UpdatedTableAfter[i] = UpdatedTable[i]
          /\ OtherTablesUnchanged]_vars

(* A travel whose start_date alone was updated, a second travel stored     *)
(* beside it.                                                              *)
C21_Witness ==
    /\ resp.op = "update_travel" /\ resp.status = 200
    /\ resp.named = {"start_date"}
    /\ Len(travels) = 2
    /\ travels[resp.id].start_date # before.travels[resp.id].start_date
    /\ travels[resp.id].title = before.travels[resp.id].title
    /\ travels[resp.id].updated_at > travels[resp.id].created_at

UpdateStep == resp'.op \in UpdateOps /\ resp'.id > 0

(* C22: an update under a positive id answers 404 when no row has the id,  *)
(* 410 when the row is soft-deleted and 400 when the row is active and the *)
(* request names no field; and whenever an update fails, for these reasons *)
(* or for a failed format, ordering or uniqueness check, no row of any     *)
(* table changes.                                                          *)
C22_UpdateRefusals ==
    [][UpdateStep =>
          /\ resp'.id > Len(UpdatedTable) => resp'.status = 404
          /\ (resp'.id <= Len(UpdatedTable) /\ UpdatedTable[resp'.id].is_deleted = 1)
                 => resp'.status = 410
          /\ (/\ resp'.id <= Len(UpdatedTable)
              /\ UpdatedTable[resp'.id].is_deleted = 0
              /\ resp'.named = {}) => resp'.status = 400
          /\ resp'.status # 200 => StoreUnchanged]_vars

(* An update of an active travel naming a good title and a start_date not  *)
(* before the stored end_date, refused, the row as it was created.         *)
C22_Witness ==
    /\ resp.op = "update_travel" /\ resp.status = 400
    /\ resp.named = {"title", "start_date"}
    /\ resp.id \in TravelIds
    /\ travels[resp.id].is_deleted = 0
    /\ travels[resp.id] = before.travels[resp.id]

(* An update of an active event type refused for a duplicate name while it *)
(* also names a colour.                                                    *)
C22_WitnessConflict ==
    /\ resp.op = "update_event_type" /\ resp.status = 409
    /\ resp.named = {"name", "color"}

(* An update of an active event type without fields, refused.              *)
C22_WitnessNoFields ==
    /\ resp.op = "update_event_type" /\ resp.status = 400
    /\ resp.named = {}
    /\ resp.id \in EventTypeIds
    /\ event_types[resp.id].is_deleted = 0

(* C23: a successful soft delete of a travel changes only is_deleted,      *)
(* deleted_at and updated_at of that travel: no event, the travel's own    *)
(* among them, no other travel and no event type changes.                  *)
C23_DeleteTravelFrame ==
    [][(resp'.op = "delete_travel" /\ resp'.status = 200) =>
          /\ resp'.id \in TravelIds
          /\ Len(travels') = Len(travels)
          /\ travels'[resp'.id].is_deleted = 1
          /\ \A c \in (DOMAIN travels[resp'.id]) \ {"is_deleted", "deleted_at", "updated_at"} :
                 travels'[resp'.id][c] = travels[resp'.id][c]
          /\ \A t \in TravelIds : t # resp'.id => travels'[t] = travels[t]
          /\ events' = events
          /\ event_types' = event_types]_vars

(* A travel soft-deleted while an event of it is stored and stays active.  *)
C23_Witness ==
    /\ resp.op = "delete_travel" /\ resp.status = 200
    /\ travels[resp.id].is_deleted = 1
    /\ \E e \in EventIds : events[e].travel_id = resp.id /\ events[e].is_deleted = 0

(* No active event carries the id of a stored, soft-deleted event type.    *)
NoDeletedTypeInUse ==
    \A e \in EventIds :
        (events[e].is_deleted = 0 /\ events[e].event_type_id \in EventTypeIds)
            => event_types[events[e].event_type_id].is_deleted = 0

NoDeletedTypeInUseAfter ==
    \A e \in 1..Len(events') :
        (events'[e].is_deleted = 0 /\ events'[e].event_type_id \in 1..Len(event_types'))
            => event_types'[events'[e].event_type_id].is_deleted = 0

(* C24, amended: every step other than a successful restore of an event    *)
(* keeps the store free of active events that reference a soft-deleted     *)
(* event type; a restore of an event does not look at its event type.      *)
C24_StaleTypeOnlyByRestore ==
    [][(NoDeletedTypeInUse /\ ~(resp'.op = "restore_event" /\ resp'.status = 200))
           => NoDeletedTypeInUseAfter]_vars

(* C24 as stated: in every reachable state no active event references a    *)
(* soft-deleted event type.                                                *)
C24_AsStated == NoDeletedTypeInUse

(* An event type soft-deleted while the one event that references it is    *)
(* soft-deleted itself.                                                    *)
C24_Witness ==
    /\ resp.op = "delete_event_type" /\ resp.status = 200
    /\ event_types[resp.id].is_deleted = 1
    /\ \E e \in EventIds : events[e].event_type_id = resp.id /\ events[e].is_deleted = 1

(* The soft-deleted travels whose day of deletion lies within the bounds   *)
(* of f that are given, both bounds included, and that match its text      *)
(* filters.                                                                *)
DeletedWithin(f) ==
    {t \in TravelIds :
        /\ travels[t].is_deleted = 1
        /\ Given(f.title) => Like(travels[t].title, f.title)
        /\ Given(f.destination) => Like(travels[t].destination, f.destination)
        /\ f.deleted_date_from # NO_DATE => f.deleted_date_from <= DateOf(travels[t].deleted_at)
        /\ f.deleted_date_to # NO_DATE => DateOf(travels[t].deleted_at) <= f.deleted_date_to}

(* C25: the deleted-travels list answers 400 exactly when deleted_date_from *)
(* or deleted_date_to is not a valid date, and otherwise 200 with the      *)
(* soft-deleted travels deleted within the inclusive bounds.               *)
C25_DeletedDateFilters ==
    resp.op = "list_deleted_travels" =>
        IF resp.req.deleted_date_from = BAD_DATE \/ resp.req.deleted_date_to = BAD_DATE
        THEN resp.status = 400
        ELSE /\ resp.status = 200
             /\ resp.total = Cardinality(DeletedWithin(resp.req))
             /\ Elems(resp.data) \subseteq DeletedWithin(resp.req)

(* The operations addressed by an id in the path.                          *)
ByIdOps ==
    {"get_travel", "update_travel", "delete_travel", "restore_travel",
     "get_event_type", "update_event_type", "delete_event_type", "restore_event_type",
     "get_event", "update_event", "delete_event", "restore_event",
     "list_travel_events", "list_travel_deleted_events", "create_travel_event"}

(* The response carries nothing taken from the store.                      *)
NothingRead(r) ==
    /\ r.count = -1 /\ r.detail_count = -1 /\ r.total = -1
    /\ r.data = <<>> /\ r.created = NO_ID /\ r.deletedAt = NULL_TS

(* C26: every operation addressed by an id answers an id <= 0 with 400, in *)
(* every state of the store alike: the response carries nothing taken from *)
(* the store and no table changes.                                         *)
C26_NonPositiveIds ==
    [][(resp'.op \in ByIdOps /\ resp'.id <= 0) =>
          /\ resp'.status = 400
          /\ NothingRead(resp')
          /\ StoreUnchanged
          /\ now' = now]_vars

(* An id of 0 refused by the delete of an event while events are stored.   *)
C26_Witness ==
    /\ resp.op = "delete_event" /\ resp.id <= 0 /\ resp.status = 400
    /\ Len(events) >= 1

(***************************************************************************)
(* Requests handled at the same moment (SpecConcurrent).                    *)
(***************************************************************************)
UpdateCalls == {p \in CallIds : calls[p].op = "update_travel"}

CallColumns(c) == TravelColumns(c.title, NULL, c.start_date, c.end_date, NULL)

(* The value the UPDATE of call c stores in a column it names.             *)
CallValue(c, col) ==
    CASE col = "title" -> sanitize_input(c.title)
      [] col = "start_date" -> c.start_date
      [] col = "end_date" -> c.end_date

(* Call p's UPDATE was applied, and after that of every other update of    *)
(* the same travel that names the column.                                  *)
WroteLast(p, col) ==
    /\ calls[p].wrote_at # 0
    /\ \A q \in UpdateCalls :
           (q # p /\ calls[q].id = calls[p].id /\ col \in CallColumns(calls[q]))
               => calls[q].wrote_at < calls[p].wrote_at

SameKey(c, d) ==
    /\ Lower(sanitize_input(c.name)) = Lower(sanitize_input(d.name))
    /\ Lower(sanitize_input(c.category)) = Lower(sanitize_input(d.category))

FailedUnexpectedly(p) ==
    calls[p].pc = "done" /\ calls[p].raised.cls \notin {"", "HTTPException"}

(* The request was answered after its handler raised a 400, 404, 409 or    *)
(* 410.                                                                    *)
FailedInDomain(p) ==
    /\ calls[p].pc = "done" /\ calls[p].raised.cls = "HTTPException"
    /\ calls[p].raised.status_code \in {400, 404, 409, 410}

(* C29: a request whose handler met a failure that is not an HTTP error it *)
(* raised itself is answered 500 with a message that is the same for every *)
(* such failure of that operation and is not the text of the exception; a  *)
(* request whose handler raised 400, 404, 409 or 410 is answered with that *)
(* status.                                                                 *)
C29_GenericInternalError ==
    /\ \A p \in CallIds :
           FailedUnexpectedly(p) =>
               /\ calls[p].status = 500
               /\ calls[p].error.status_code = 500
               /\ calls[p].message # calls[p].raised.detail
               /\ calls[p].message # OperationalError.detail
               /\ \A q \in CallIds :
                      (FailedUnexpectedly(q) /\ calls[q].op = calls[p].op)
                          => calls[q].message = calls[p].message
    /\ \A p \in CallIds :
           FailedInDomain(p) =>
               /\ calls[p].status = calls[p].raised.status_code
               /\ calls[p].error.status_code = calls[p].raised.status_code

(* Two updates of one travel: the commit of one failed and it was answered *)
(* 500 with the store as it was, the SELECT of the other failed, and both  *)
(* carry the same message although the exceptions differ in origin.        *)
C29_Witness ==
    \E p, q \in CallIds :
        /\ p # q
        /\ calls[p].op = "update_travel" /\ calls[q].op = "update_travel"
        /\ FailedUnexpectedly(p) /\ FailedUnexpectedly(q)
        /\ calls[p].fault = "commit" /\ calls[p].write.rolled_back
        /\ calls[q].fault = "connect"
        /\ calls[p].status = 500 /\ calls[q].status = 500
        /\ travels[1].updated_at = 0

(* An update answered 400 because the other update's start date, already   *)
(* stored, is not before its end date.                                     *)
C29_WitnessDomain ==
    \E p \in CallIds :
        /\ FailedInDomain(p)
        /\ calls[p].op = "update_travel" /\ calls[p].status = 400
        /\ calls[p].seen # <<>> /\ calls[p].seen[1].start_date = 1

(* The write accessor of the request was called and has returned or        *)
(* raised.                                                                 *)
WriteCalled(p) == calls[p].write # NoOutcome

(* C30: a write accessor that returned has committed the statement; one    *)
(* that failed, the failure to get the connection included, has rolled     *)
(* back, left the store as it was and raised the failure it met.           *)
C30_AccessorContract ==
    \A p \in CallIds :
        WriteCalled(p) =>
            /\ calls[p].write.original = NoException
                   => (calls[p].write.committed /\ calls[p].wrote_at # 0)
            /\ calls[p].write.original # NoException
                   => /\ calls[p].write.rolled_back
                      /\ ~calls[p].write.committed /\ calls[p].wrote_at = 0
                      /\ calls[p].write.raised = calls[p].write.original

====
